---- MODULE Spec2Model ----
(***************************************************************************)
(* The job scheduler (worker pool) of the test executor:                   *)
(* TestExecutor in package executor.  InitExecutor builds the executor and *)
(* starts maxWorkers goroutines that range over one buffered channel,      *)
(* workQueue; callers submit with ExecuteTestCaseWithOptions and read the  *)
(* job's ResultChan; CancelExecution and Stop edit the shared state.       *)
(*                                                                         *)
(* A Go channel is a bounded FIFO: a send is enabled while the buffer has  *)
(* room and panics once the channel is closed; a receive takes the head,   *)
(* and a range loop over a closed channel ends when the buffer is empty.   *)
(* A panic in a goroutine nobody recovers ends the process: crashed.       *)
(* Each section under te.mutex is one atomic step.                         *)
(*                                                                         *)
(* The step execution driver, executeTestCase, is the replay a worker runs *)
(* for one job: its own specification, ReplaySpec, follows one call from   *)
(* the parse of the steps to the returned ExecutionResult.  The recording  *)
(* sessions of package recorder (RecorderManager, ChromeRecorder) have the *)
(* specifications RecorderSpec (no subscriber connection), SubscriberSpec  *)
(* (one session with its poll loop and its subscriber connections) and     *)
(* SessionSpec (all of it).                                                *)
(***************************************************************************)
EXTENDS Integers, Sequences, FiniteSets

\* Largest maxWorkers that InitExecutor is given.
MaxInstances == 2
\* Calls of ExecuteTestCaseWithOptions in a run.
MaxJobs == 4
\* Execution ids range over 1..MaxExecId.
MaxExecId == 2

Jobs == 1..MaxJobs
ExecIds == 1..MaxExecId

VARIABLES
    maxWorkers,  \* te.maxWorkers
    workQueue,   \* te.workQueue: the buffered jobs, oldest first
    closed,      \* te.workQueue has been closed
    running,     \* te.running: the keys of the map
    njobs,       \* calls of ExecuteTestCaseWithOptions made so far
    eid,         \* eid[j]: job.Execution.ID (0: no such job yet)
    spc,         \* spc[j]: where the goroutine that submits job j is
    resultChan,  \* resultChan[j]: job.ResultChan, a channel of capacity 1
    wpc,         \* wpc[w]: where worker goroutine w is
    wjob,        \* wjob[w]: the job worker w holds (0: none)
    replays,     \* replays[j]: times executeTestCase was started for job j
    sent,        \* sent[j]: results sent on job j's ResultChan
    waited,      \* jobs whose send found the queue full
    ret,         \* what the call made in the last step returned
    crashed      \* the process died of a panic

VARIABLES
    replay,      \* one call of executeTestCase: its locals and its result
    manager      \* recorder.Manager, its ChromeRecorder objects, their pages

VARIABLES
    handlers,    \* package handlers: the executions created, the goroutines
    database     \* database.DB: the Status of each TestExecution row, by ID

executorVars == <<maxWorkers, workQueue, closed, running, njobs, eid, spc,
                  resultChan, wpc, wjob, replays, sent, waited, ret, crashed>>

vars == <<maxWorkers, workQueue, closed, running, njobs, eid, spc, resultChan,
          wpc, wjob, replays, sent, waited, ret, crashed, replay, manager,
          handlers, database>>

\* The call of executeTestCase.
\* Where the call is.
rpc == replay.rpc
\* testCase's steps: the type of each step, in order.
steps == replay.steps
\* i of the loop over the steps (from 0, as in the code).
stepi == replay.stepi
\* The ExecutionResult under construction.
result == replay.result
\* The 10 minute deadline of ctx has passed.
expired == replay.expired
\* chromedp.Navigate: "no" (not called), "ok" or "failed".
navigated == replay.navigated
\* The calls of executeStep so far: step index and outcome.
attempts == replay.attempts
\* The Chrome lookup: "no" (not made), "not found", "not accessible", "found".
browser == replay.browser
\* Calls of takeScreenshot that returned "".
lost == replay.lost
\* What the page gave collectPerformanceMetrics.
sample == replay.sample

\* The recording sessions.
\* Manager.recorders: the map from session ids to recorder objects.
recorders == manager.recorders
\* recorder[o]: the fields of ChromeRecorder object o, for o in 1..nobjects.
recorder == manager.recorder
\* ChromeRecorder objects put in the map so far.
nobjects == manager.nobjects
\* User events captured by the recording script so far.
nevents == manager.nevents
\* Connections handed to SetWebSocketConnection so far.
nconns == manager.nconns
\* What the RecorderManager call of the last step returned.
rret == manager.rret

\* for i := 0; i < maxWorkers; i++ { go GlobalExecutor.worker() }
WorkersOffByOne == 0..maxWorkers
Workers == 1..maxWorkers

AllWorkers == 0..MaxInstances

\* make(chan ExecutionJob, maxWorkers*2)
QueueCap == maxWorkers * 2

\* make(chan ExecutionResult): a channel whose buffer holds no result.
Unbuffered == Len(<<>>)

\* make(chan ExecutionResult, 1)
ResultChanCap == 1

NoRet == [op |-> "none", id |-> 0, value |-> FALSE]

\* The jobs in the queue, and the jobs workers hold.
Queued == {workQueue[i] : i \in 1..Len(workQueue)}
Held == {wjob[w] : w \in AllWorkers} \ {0}
Replaying == {wjob[w] : w \in {v \in AllWorkers : wpc[v] = "exec"}}

IsRunning(executionID) == executionID \in running

GetRunningCount == Cardinality(running)

GetExecutionStatus(executionID) ==
    IF executionID \in running THEN "running" ELSE "completed"

\* InitExecutor(maxWorkers): the executor with its queue, its empty running
\* map and its maxWorkers goroutines waiting in the range loop.
InitExecutor ==
    /\ maxWorkers \in 1..MaxInstances
    /\ workQueue = <<>>
    /\ closed = FALSE
    /\ running = {}
    /\ njobs = 0
    /\ eid = [j \in Jobs |-> 0]
    /\ spc = [j \in Jobs |-> "idle"]
    /\ resultChan = [j \in Jobs |-> <<>>]
    /\ wpc = [w \in AllWorkers |-> IF w \in Workers THEN "recv" ELSE "off"]
    /\ wjob = [w \in AllWorkers |-> 0]
    /\ replays = [j \in Jobs |-> 0]
    /\ sent = [j \in Jobs |-> 0]
    /\ waited = {}
    /\ ret = NoRet
    /\ crashed = FALSE

\* result := ExecutionResult{Screenshots: make([]string, 0),
\*                           Logs: make([]ExecutionLog, 0)}
\* ErrorMessage is the sequence of the parts of the message (<<>>: ""),
\* Metrics is a pointer: <<>> is nil, <<m>> points to the record m.
NewResult ==
    [Success |-> FALSE, ErrorMessage |-> <<>>, Screenshots |-> <<>>,
     Logs |-> <<>>, Metrics |-> <<>>]

\* What the evaluation in collectPerformanceMetrics gave: its error ("no":
\* not made) and the keys of the data whose value is above zero.
NoSample == [err |-> "no", positive |-> {}]

\* The locals of a call of executeTestCase on the given steps, as the call
\* starts.
Call(caseSteps) ==
    [rpc |-> "start", steps |-> caseSteps, stepi |-> 0, result |-> NewResult,
     expired |-> FALSE, navigated |-> "no", attempts |-> <<>>,
     browser |-> "no", lost |-> 0, sample |-> NoSample]

\* No call of executeTestCase is under way: there are no locals.
NoReplay == replay = [rpc |-> "idle"]

\* No request has reached the handlers; no TestExecution row.
NoRequests == [nexec |-> 0, waiting |-> {}, suites |-> {}]
NoHandlers == handlers = NoRequests /\ database = <<>>

\* Recording sessions are named 1..MaxSessionId; the ChromeRecorder objects
\* that reach the map in a run are numbered 1..MaxObjects (one whose start
\* fails is dropped when the call returns), the user events 1..MaxEvents.
MaxSessionId == 2
MaxObjects == 2
MaxEvents == 2
\* Subscriber connections handed to SetWebSocketConnection in a run.
MaxConns == 2
SessionIds == 1..MaxSessionId
Objects == 1..MaxObjects

\* NewChromeRecorder(sessionID, device), before it is called: the fields of
\* the object (cancelled: r.ctx is done; wsConn = 0: nil), where its
\* listenForEvents goroutine is (lpc), the events the script in the page holds
\* (page), the events of the goroutine's last evaluation of getEvents (batch),
\* all the events it was ever handed (drained), for each of them the value of
\* r.wsConn when it was handed over (attached), and the messages it wrote
\* with WriteMessage, each with the connection it was written to (wire).
NoRecorder ==
    [isRecording |-> FALSE, steps |-> <<>>, sessionID |-> 0,
     cancelled |-> FALSE, wsConn |-> 0, lpc |-> "off", page |-> <<>>,
     batch |-> <<>>, drained |-> <<>>, attached |-> <<>>, wire |-> <<>>]

\* What a call returned, and whether it made a browser context.
NoRRet == [op |-> "none", err |-> "none", context |-> FALSE]

\* var Manager = &RecorderManager{recorders: make(map[string]*ChromeRecorder)}
\* The map has no key, and no ChromeRecorder exists yet.
NewManager ==
    manager = [recorders |-> [s \in {} |-> 0], recorder |-> <<>>,
               nobjects |-> 0, nevents |-> 0, nconns |-> 0,
               rret |-> NoRRet]

Init == InitExecutor /\ NoReplay /\ NewManager /\ NoHandlers

\* ExecuteTestCaseWithOptions, a call with execution.ID = id: under the mutex
\* te.running[id] = true; then the job with its result channel is sent on
\* te.workQueue and the channel is returned.  A send on a closed channel
\* panics; a send on a full one waits (Send below ends the call).  The send
\* touches nothing but the channel, so a call that need not wait is one step.
\* Ids are opaque keys: a run uses 1 first, then 2, ... (any other run is one
\* of these with the ids renamed).
ExecuteTestCaseWithOptions(id) ==
    /\ ~crashed
    /\ UNCHANGED <<replay, manager, handlers, database>>
    /\ njobs < MaxJobs
    /\ \A i \in 1..(id - 1) : \E j \in 1..njobs : eid[j] = i
    /\ njobs' = njobs + 1
    /\ running' = running \cup {id}
    /\ eid' = [eid EXCEPT ![njobs + 1] = id]
    /\ IF closed
       THEN /\ crashed' = TRUE
            /\ spc' = [spc EXCEPT ![njobs + 1] = "panicked"]
            /\ UNCHANGED <<workQueue, waited>>
       ELSE IF Len(workQueue) < QueueCap
       THEN /\ workQueue' = Append(workQueue, njobs + 1)
            /\ spc' = [spc EXCEPT ![njobs + 1] = "wait"]
            /\ UNCHANGED <<crashed, waited>>
       ELSE /\ spc' = [spc EXCEPT ![njobs + 1] = "send"]
            /\ waited' = waited \cup {njobs + 1}
            /\ UNCHANGED <<workQueue, crashed>>
    /\ ret' = NoRet
    /\ UNCHANGED <<maxWorkers, closed, resultChan, wpc, wjob, replays, sent>>

\* ExecuteTestCaseWithOptions, the end of a call that waited in
\* te.workQueue <- job: the send goes through once the buffer has room, and
\* panics once the channel is closed.
SendNoWait(j) ==
    /\ ~crashed
    /\ UNCHANGED <<replay, manager, handlers, database>>
    /\ spc[j] = "send"
    /\ IF closed
       THEN /\ crashed' = TRUE
            /\ spc' = [spc EXCEPT ![j] = "panicked"]
            /\ UNCHANGED workQueue
       ELSE /\ workQueue' = Append(workQueue, j)
            /\ spc' = [spc EXCEPT ![j] = "wait"]
            /\ UNCHANGED crashed
    /\ ret' = NoRet
    /\ UNCHANGED <<maxWorkers, closed, running, njobs, eid, resultChan, wpc,
                   wjob, replays, sent, waited>>
Send(j) ==
    /\ ~crashed
    /\ UNCHANGED <<replay, manager, handlers, database>>
    /\ spc[j] = "send"
    /\ IF closed
       THEN /\ crashed' = TRUE
            /\ spc' = [spc EXCEPT ![j] = "panicked"]
            /\ UNCHANGED workQueue
       ELSE /\ Len(workQueue) < QueueCap
            /\ workQueue' = Append(workQueue, j)
            /\ spc' = [spc EXCEPT ![j] = "wait"]
            /\ UNCHANGED crashed
    /\ ret' = NoRet
    /\ UNCHANGED <<maxWorkers, closed, running, njobs, eid, resultChan, wpc,
                   wjob, replays, sent, waited>>

\* The caller's result := <-resultChan.
Receive(j) ==
    /\ ~crashed
    /\ UNCHANGED <<replay, manager, handlers, database>>
    /\ spc[j] = "wait"
    /\ resultChan[j] # <<>>
    /\ resultChan' = [resultChan EXCEPT ![j] = Tail(@)]
    /\ spc' = [spc EXCEPT ![j] = "done"]
    /\ ret' = NoRet
    /\ UNCHANGED <<maxWorkers, workQueue, closed, running, njobs, eid, wpc,
                   wjob, replays, sent, waited, crashed>>

\* worker: for job := range te.workQueue, and executeTestCase starts.  The
\* receive takes the oldest job; the loop ends when the channel is closed and
\* empty.  The goroutines waiting in the loop run the same code with no state
\* of their own: the lowest-numbered one stands for whichever receives.
DequeuePeek(w) ==
    /\ ~crashed
    /\ UNCHANGED <<replay, manager, handlers, database>>
    /\ wpc[w] = "recv"
    /\ \A v \in Workers : wpc[v] = "recv" => w <= v
    /\ workQueue # <<>>
    /\ wjob' = [wjob EXCEPT ![w] = Head(workQueue)]
    /\ wpc' = [wpc EXCEPT ![w] = "exec"]
    /\ replays' = [replays EXCEPT ![Head(workQueue)] = @ + 1]
    /\ ret' = NoRet
    /\ UNCHANGED <<maxWorkers, workQueue, closed, running, njobs, eid, spc,
                   resultChan, sent, waited, crashed>>
worker_dequeue(w) ==
    /\ ~crashed
    /\ UNCHANGED <<replay, manager, handlers, database>>
    /\ wpc[w] = "recv"
    /\ \A v \in Workers : wpc[v] = "recv" => w <= v
    /\ IF workQueue # <<>>
       THEN /\ wjob' = [wjob EXCEPT ![w] = Head(workQueue)]
            /\ workQueue' = Tail(workQueue)
            /\ wpc' = [wpc EXCEPT ![w] = "exec"]
            /\ replays' = [replays EXCEPT ![Head(workQueue)] = @ + 1]
       ELSE /\ closed
            /\ wpc' = [wpc EXCEPT ![w] = "exit"]
            /\ UNCHANGED <<wjob, workQueue, replays>>
    /\ ret' = NoRet
    /\ UNCHANGED <<maxWorkers, closed, running, njobs, eid, spc, resultChan,
                   sent, waited, crashed>>

\* worker: executeTestCase returns (it touches no scheduler state), then
\* delete(te.running, job.Execution.ID) under the mutex.
FinishKeepId(w) ==
    /\ ~crashed
    /\ UNCHANGED <<replay, manager, handlers, database>>
    /\ wpc[w] = "exec"
    /\ wpc' = [wpc EXCEPT ![w] = "publish"]
    /\ ret' = NoRet
    /\ UNCHANGED <<maxWorkers, workQueue, closed, running, njobs, eid, spc,
                   resultChan, wjob, replays, sent, waited, crashed>>
worker_finish(w) ==
    /\ ~crashed
    /\ UNCHANGED <<replay, manager, handlers, database>>
    /\ wpc[w] = "exec"
    /\ running' = running \ {eid[wjob[w]]}
    /\ wpc' = [wpc EXCEPT ![w] = "publish"]
    /\ ret' = NoRet
    /\ UNCHANGED <<maxWorkers, workQueue, closed, njobs, eid, spc, resultChan,
                   wjob, replays, sent, waited, crashed>>

\* worker: job.ResultChan <- result, then back to the range loop.  The result
\* sent is the one executeTestCase returned for the job the worker holds; it
\* stands in the channel as the job's number.
worker_publish(w) ==
    /\ ~crashed
    /\ UNCHANGED <<replay, manager, handlers, database>>
    /\ wpc[w] = "publish"
    /\ Len(resultChan[wjob[w]]) < ResultChanCap
    /\ resultChan' = [resultChan EXCEPT ![wjob[w]] = Append(@, wjob[w])]
    /\ sent' = [sent EXCEPT ![wjob[w]] = @ + 1]
    /\ wpc' = [wpc EXCEPT ![w] = "recv"]
    /\ wjob' = [wjob EXCEPT ![w] = 0]
    /\ ret' = NoRet
    /\ UNCHANGED <<maxWorkers, workQueue, closed, running, njobs, eid, spc,
                   replays, waited, crashed>>

\* CancelExecution: under the mutex, delete the id and return true when it is
\* in te.running, else return false.
CancelExecutionAlwaysTrue(executionID) ==
    /\ ~crashed
    /\ UNCHANGED <<replay, manager, handlers, database>>
    /\ running' = running \ {executionID}
    /\ ret' = [op |-> "CancelExecution", id |-> executionID, value |-> TRUE]
    /\ UNCHANGED <<maxWorkers, workQueue, closed, njobs, eid, spc, resultChan,
                   wpc, wjob, replays, sent, waited, crashed>>
CancelExecution(executionID) ==
    /\ ~crashed
    /\ UNCHANGED <<replay, manager, handlers, database>>
    /\ running' = running \ {executionID}
    /\ ret' = [op |-> "CancelExecution", id |-> executionID,
               value |-> (executionID \in running)]
    /\ UNCHANGED <<maxWorkers, workQueue, closed, njobs, eid, spc, resultChan,
                   wpc, wjob, replays, sent, waited, crashed>>

\* Stop: under the mutex, close(te.workQueue) (te.workQueue is never nil after
\* InitExecutor; te.cancel is never set).  Shutdown calls Stop once: a second
\* call would close the closed channel.
Stop ==
    /\ ~crashed
    /\ UNCHANGED <<replay, manager, handlers, database>>
    /\ ~closed
    /\ closed' = TRUE
    /\ ret' = NoRet
    /\ UNCHANGED <<maxWorkers, workQueue, running, njobs, eid, spc, resultChan,
                   wpc, wjob, replays, sent, waited, crashed>>

Next ==
    \/ \E id \in ExecIds : ExecuteTestCaseWithOptions(id)
    \/ \E j \in Jobs : Send(j)
    \/ \E j \in Jobs : Receive(j)
    \/ \E w \in Workers : worker_dequeue(w)
    \/ \E w \in Workers : worker_finish(w)
    \/ \E w \in Workers : worker_publish(w)
    \/ \E id \in ExecIds : CancelExecution(id)
    \/ Stop

Spec == Init /\ [][Next]_vars

\* The Go scheduler runs every goroutine that can take a step: a worker that
\* can receive, return from a replay or send does so, and a sender waiting on
\* the queue is served when room appears (senders wait in FIFO order).
Fairness ==
    /\ \A w \in AllWorkers : WF_vars(worker_dequeue(w))
    /\ \A w \in AllWorkers : WF_vars(worker_finish(w))
    /\ \A w \in AllWorkers : WF_vars(worker_publish(w))
    /\ \A j \in Jobs : SF_vars(Send(j))

FairSpec == Spec /\ Fairness

(***************************************************************************)
(* The workers and te.mutex.  A worker takes the mutex after executeTestCase *)
(* has returned and gives it back after the delete; SuspendSpec makes the  *)
(* two steps of it, and lets one replay be suspended for ever (in a        *)
(* navigation, a wait for an element, a delay).  The executor is running:  *)
(* Stop is not called.                                                     *)
(***************************************************************************)
\* Submissions in a run of SuspendSpec.
MaxSuspendJobs == 3

\* Worker w holds te.mutex: it is between its Lock and its Unlock (the other
\* sections under the mutex are one step each).
HoldsInReplay(w) == wpc[w] \in {"exec", "suspended", "locked"}
Holds(w) == wpc[w] = "locked"
MutexFree == \A w \in AllWorkers : ~Holds(w)

\* worker: executeTestCase never returns.  One replay is suspended.
executeTestCaseSuspended(w) ==
    /\ wpc[w] = "exec"
    /\ \A v \in AllWorkers : wpc[v] # "suspended"
    /\ wpc' = [wpc EXCEPT ![w] = "suspended"]
    /\ ret' = NoRet
    /\ UNCHANGED <<maxWorkers, workQueue, closed, running, njobs, eid, spc,
                   resultChan, wjob, replays, sent, waited, crashed, replay,
                   manager, handlers, database>>

\* worker: executeTestCase returns, then te.mutex.Lock().
worker_Lock(w) ==
    /\ wpc[w] = "exec"
    /\ \A v \in AllWorkers \ {w} : ~Holds(v)
    /\ wpc' = [wpc EXCEPT ![w] = "locked"]
    /\ ret' = NoRet
    /\ UNCHANGED <<maxWorkers, workQueue, closed, running, njobs, eid, spc,
                   resultChan, wjob, replays, sent, waited, crashed, replay,
                   manager, handlers, database>>

\* worker: delete(te.running, job.Execution.ID), then te.mutex.Unlock().
worker_Unlock(w) ==
    /\ wpc[w] = "locked"
    /\ running' = running \ {eid[wjob[w]]}
    /\ wpc' = [wpc EXCEPT ![w] = "publish"]
    /\ ret' = NoRet
    /\ UNCHANGED <<maxWorkers, workQueue, closed, njobs, eid, spc, resultChan,
                   wjob, replays, sent, waited, crashed, replay, manager,
                   handlers, database>>

SuspendNext ==
    \/ \E id \in ExecIds :
          /\ MutexFree
          /\ njobs < MaxSuspendJobs
          /\ ExecuteTestCaseWithOptions(id)
    \/ \E j \in Jobs : Send(j)
    \/ \E j \in Jobs : Receive(j)
    \/ \E w \in Workers : worker_dequeue(w)
    \/ \E w \in Workers : executeTestCaseSuspended(w)
    \/ \E w \in Workers : worker_Lock(w)
    \/ \E w \in Workers : worker_Unlock(w)
    \/ \E w \in Workers : worker_publish(w)
    \/ \E id \in ExecIds : MutexFree /\ CancelExecution(id)

\* The Go scheduler runs every goroutine that can take a step: one that
\* could go on from some moment on does go on.
SuspendFairness ==
    /\ \A w \in 1..MaxInstances : WF_vars(worker_dequeue(w))
    /\ \A w \in 1..MaxInstances : WF_vars(worker_Lock(w))
    /\ \A w \in 1..MaxInstances : WF_vars(worker_Unlock(w))
    /\ \A w \in 1..MaxInstances : WF_vars(worker_publish(w))
    /\ \A j \in 1..MaxSuspendJobs : WF_vars(Send(j))

SuspendSpec == Init /\ [][SuspendNext]_vars /\ SuspendFairness

(***************************************************************************)
(* Package handlers: the requests that submit executions.  A handler       *)
(* checks GetRunningCount(), creates the TestExecution rows and starts a   *)
(* goroutine; the goroutine calls ExecuteTestCaseWithOptions, which puts   *)
(* the id in te.running, and waits for the result; the worker deletes the  *)
(* id when the replay is over.  The queue, the workers and the replay are  *)
(* left out here: a job that is in te.running comes back.                   *)
(***************************************************************************)
\* 'Max concurrent executions' of the two handlers.
MaxConcurrent == 10
\* The executions the requests create: where only the admission is
\* followed, and where the rows are followed too.
MaxRequests == 11
MaxExecutions == 3
\* len(testSuite.TestCases), and the goroutines of ExecuteTestSuite that run
\* at a time.
MaxSuiteCases == 2
MaxSuites == 1

HandlersFrame ==
    UNCHANGED <<maxWorkers, workQueue, closed, njobs, eid, spc, resultChan,
                wpc, wjob, replays, sent, waited, ret, crashed, replay,
                manager>>

\* The goroutine of ExecuteTestSuite: the executions it has not started yet,
\* in order, and the one whose result it waits for (0: none).
SuiteOf(first, n) == [ids |-> [k \in 1..n |-> first + k - 1], current |-> 0]

\* ExecuteTestCase, to the go statement: the request is refused when
\* GetRunningCount() >= 10; else the row is created (its ID is the next one)
\* and the goroutine started.
ExecuteTestCase_Admit(id) ==
    /\ id = handlers.nexec + 1
    /\ GetRunningCount < MaxConcurrent
    /\ handlers' = [handlers EXCEPT !.nexec = id, !.waiting = @ \cup {id}]
    /\ UNCHANGED running
    /\ HandlersFrame

\* The goroutine of ExecuteTestCase calls ExecuteTestCaseWithOptions:
\* te.running[execution.ID] = true.  The goroutines run the same code on ids
\* that differ in nothing else: the lowest waiting id stands for whichever
\* goroutine goes first.
ExecuteTestCase_Go(id) ==
    /\ id \in handlers.waiting
    /\ \A other \in handlers.waiting : id <= other
    /\ running' = running \cup {id}
    /\ handlers' = [handlers EXCEPT !.waiting = @ \ {id}]
    /\ HandlersFrame

\* ExecuteTestSuite, to the go statement: the request is refused when
\* runningCount + len(testSuite.TestCases) > 10; else a row is created for
\* each of the n test cases.  When database.DB.Create fails after `created`
\* rows the handler returns; the goroutine is started only when all n rows
\* are there.
ExecuteTestSuite_Admit(n, created) ==
    /\ GetRunningCount + n <= MaxConcurrent
    /\ handlers' = [handlers EXCEPT
          !.nexec = @ + created,
          !.suites = IF created = n
                     THEN @ \cup {SuiteOf(handlers.nexec + 1, n)}
                     ELSE @]
    /\ UNCHANGED running
    /\ HandlersFrame

\* The goroutine of ExecuteTestSuite starts its next execution: it calls
\* ExecuteTestCaseWithOptions and waits for the result.
ExecuteTestSuite_Go(suite) ==
    /\ suite \in handlers.suites
    /\ suite.current = 0
    /\ running' = running \cup {Head(suite.ids)}
    /\ handlers' = [handlers EXCEPT
          !.suites = (@ \ {suite}) \cup
                     {[ids |-> Tail(suite.ids), current |-> Head(suite.ids)]}]
    /\ HandlersFrame

\* The goroutines of the suites once the result of id has come: the one that
\* waited for it goes to its next execution, or returns after its last.
AfterResult(suites, id) ==
    {suite \in suites : suite.current # id}
    \cup {[suite EXCEPT !.current = 0] :
             suite \in {u \in suites : u.current = id /\ u.ids # <<>>}}

\* The replay of id is over: the worker deletes the id from te.running and
\* sends the result, which the goroutine that submitted the job receives.
worker_Delete(id) ==
    /\ id \in running
    /\ running' = running \ {id}
    /\ handlers' = [handlers EXCEPT !.suites = AfterResult(@, id)]
    /\ HandlersFrame

\* The admission alone: what the handlers and their goroutines do to
\* te.running.  Two jobs of ExecuteTestCase that are in te.running differ
\* in nothing but the id: the lowest stands for whichever comes back first.
Alike(id, other) ==
    \A suite \in handlers.suites : suite.current \notin {id, other}

AdmissionInit == InitExecutor /\ NoReplay /\ NewManager /\ NoHandlers

AdmissionNext ==
    \/ \E id \in 1..MaxRequests :
          ExecuteTestCase_Admit(id) /\ UNCHANGED database
    \/ \E id \in 1..MaxRequests :
          ExecuteTestCase_Go(id) /\ UNCHANGED database
    \/ \E n \in 1..MaxSuiteCases, created \in 1..MaxSuiteCases :
          /\ created <= n
          /\ handlers.nexec + created <= MaxRequests
          /\ Cardinality(handlers.suites) < MaxSuites
          /\ ExecuteTestSuite_Admit(n, created)
          /\ UNCHANGED database
    \/ \E suite \in handlers.suites :
          ExecuteTestSuite_Go(suite) /\ UNCHANGED database
    \/ \E id \in 1..MaxRequests :
          /\ \A other \in running : Alike(id, other) => id <= other
          /\ worker_Delete(id)
          /\ UNCHANGED database

AdmissionSpec == AdmissionInit /\ [][AdmissionNext]_vars

\* The handlers with the rows of database.DB.
\* ExecuteTestCase: Create with Status "pending", then Status = "running"
\* and Save, before the go statement.
ExecuteTestCase(id) ==
    /\ ExecuteTestCase_Admit(id)
    /\ database' = Append(database, "running")

\* ExecuteTestSuite: each row is created with Status "pending".
ExecuteTestSuite(n, created) ==
    /\ ExecuteTestSuite_Admit(n, created)
    /\ database' = database \o [k \in 1..created |-> "pending"]

\* The goroutine of ExecuteTestSuite: execution.Status = "running" and
\* database.DB.Save(&execution), then the submission.
ExecuteTestSuite_Run(suite) ==
    /\ ExecuteTestSuite_Go(suite)
    /\ database' = [database EXCEPT ![Head(suite.ids)] = "running"]

\* The goroutine of either handler has the result: execution.Status is
\* "passed" or "failed" by result.Success, and database.DB.Save(&execution)
\* writes the goroutine's copy of the row.
Save(id, Success) ==
    /\ worker_Delete(id)
    /\ database' = [database EXCEPT
          ![id] = IF Success THEN "passed" ELSE "failed"]

\* StopExecution: only a row that is "running" or "pending" is changed, to
\* "cancelled"; the executor is not told.
StopExecution(id) ==
    /\ id \in 1..Len(database)
    /\ database[id] \in {"running", "pending"}
    /\ database' = [database EXCEPT ![id] = "cancelled"]
    /\ UNCHANGED <<running, handlers>>
    /\ HandlersFrame

Executions == 1..MaxExecutions

HandlerNext ==
    \/ \E id \in Executions : ExecuteTestCase(id)
    \/ \E id \in Executions : ExecuteTestCase_Go(id) /\ UNCHANGED database
    \/ \E n \in 1..MaxSuiteCases, created \in 1..MaxSuiteCases :
          /\ created <= n
          /\ handlers.nexec + created <= MaxExecutions
          /\ Cardinality(handlers.suites) < MaxSuites
          /\ ExecuteTestSuite(n, created)
    \/ \E suite \in handlers.suites : ExecuteTestSuite_Run(suite)
    \/ \E id \in Executions, Success \in BOOLEAN : Save(id, Success)
    \/ \E id \in Executions : StopExecution(id)

\* The goroutines go on, and the executor is running: every job that was
\* submitted comes back.
HandlerFairness ==
    /\ \A id \in Executions : WF_vars(ExecuteTestCase_Go(id) /\ UNCHANGED database)
    /\ \A id \in Executions : WF_vars(\E Success \in BOOLEAN : Save(id, Success))
    /\ WF_vars(\E suite \in handlers.suites : ExecuteTestSuite_Run(suite))

HandlerSpec == AdmissionInit /\ [][HandlerNext]_vars /\ HandlerFairness

TypeOK ==
    /\ maxWorkers \in 1..MaxInstances
    /\ closed \in BOOLEAN
    /\ crashed \in BOOLEAN
    /\ running \subseteq ExecIds
    /\ njobs \in 0..MaxJobs
    /\ waited \subseteq Jobs
    /\ \A j \in Jobs : spc[j] \in {"idle", "send", "wait", "done", "panicked"}
    /\ \A w \in AllWorkers : wpc[w] \in {"off", "recv", "exec", "publish", "exit"}

(***************************************************************************)
(* executeTestCase: the replay of one test case.                           *)
(*                                                                         *)
(* Every chromedp.Run on ctx may succeed or fail; once the deadline of ctx *)
(* has passed it fails with ctx's error, "context deadline exceeded".      *)
(***************************************************************************)
\* Steps in a test case.
MaxSteps == 3

\* The cases of the switch in executeStep, and a type it has no case for.
StepTypes ==
    {"click", "input", "keydown", "scroll", "touchstart", "touchend",
     "change", "submit"}
OtherType == "hover"

StepSeqs == UNION {[1..n -> StepTypes \cup {OtherType}] : n \in 0..MaxSteps}

\* The error of a chromedp.Run on ctx: "ok" stands for nil.
Run == IF expired THEN {"context deadline exceeded"} ELSE {"ok", "error"}

\* result.addLog(level, message, stepIndex)
addLog(r, level, stepIndex) ==
    [r EXCEPT !.Logs = Append(@, [Level |-> level, StepIndex |-> stepIndex])]

\* takeScreenshot and the append of its file name: MkdirAll, the capture (a
\* chromedp.Run) or WriteFile may fail, and then "" is returned and nothing
\* is appended.  The file name carries the tag and the step index.
Captures == IF expired THEN {FALSE} ELSE {TRUE, FALSE}
takeScreenshotAppendingEmpty(r, stepType, stepIndex, saved) ==
    [r EXCEPT !.Screenshots =
        Append(@, [Tag |-> IF saved THEN stepType ELSE "",
                   StepIndex |-> stepIndex])]
takeScreenshot(r, stepType, stepIndex, saved) ==
    IF saved
    THEN [r EXCEPT !.Screenshots =
              Append(@, [Tag |-> stepType, StepIndex |-> stepIndex])]
    ELSE r

\* shouldTakeScreenshot(step)
ShotAfterEveryStep(type) == TRUE
shouldTakeScreenshot(type) == type \in {"click", "submit", "change"}

\* executeStep(ctx, step, i): the errors it can return.  executeScroll does
\* nothing without a scrollY coordinate, executeTouch does nothing for
\* touchend and clicks for touchstart.
executeStep(type) ==
    CASE type \in {"click", "touchstart", "input", "keydown", "change",
                   "submit"} -> Run
      [] type = "scroll" -> Run \cup {"ok"}
      [] type = "touchend" -> {"ok"}
      [] OTHER -> {"unsupported step type"}

\* The browser tasks of executeClick, and those executeTouch runs for a
\* step of the given type: executeClick for touchstart, none for touchend.
executeClick == <<"WaitVisible", "Click", "Sleep">>
executeTouch(type) == IF type = "touchstart" THEN executeClick ELSE <<>>

ReplayFrame == UNCHANGED <<executorVars, manager, handlers, database>>
Lost(saved) == IF saved THEN lost ELSE lost + 1

\* steps, err := testCase.GetSteps()
GetStepsSilent ==
    /\ rpc = "start"
    /\ \E err \in BOOLEAN :
          IF err
          THEN replay' = [replay EXCEPT !.rpc = "returned"]
          ELSE replay' = [replay EXCEPT !.rpc = "chrome"]
    /\ ReplayFrame
GetSteps ==
    /\ rpc = "start"
    /\ \E err \in BOOLEAN :
          IF err
          THEN replay' = [replay EXCEPT
                  !.result = [result EXCEPT
                     !.ErrorMessage = <<"Failed to parse test steps", "error">>],
                  !.rpc = "returned"]
          ELSE replay' = [replay EXCEPT !.rpc = "chrome"]
    /\ ReplayFrame

\* chromePath := chrome.GetChromePath(), then os.Stat(chromePath).
GetChromePathNoStat ==
    /\ rpc = "chrome"
    /\ \E path \in {"", "missing", "chrome"} :
          CASE path = "" ->
                 replay' = [replay EXCEPT
                    !.result = addLog([result EXCEPT
                        !.Success = FALSE,
                        !.ErrorMessage = <<"Chrome browser not found">>],
                        "error", -1),
                    !.browser = "not found",
                    !.rpc = "returned"]
            [] path = "missing" ->
                 replay' = [replay EXCEPT
                    !.result = addLog(addLog([result EXCEPT
                        !.Success = FALSE,
                        !.ErrorMessage =
                            <<"Chrome executable not accessible", "error">>],
                        "info", -1), "error", -1),
                    !.browser = "not accessible",
                    !.rpc = "emulate"]
            [] OTHER ->
                 replay' = [replay EXCEPT
                    !.result = addLog(result, "info", -1),
                    !.browser = "found",
                    !.rpc = "emulate"]
    /\ ReplayFrame
GetChromePath ==
    /\ rpc = "chrome"
    /\ \E path \in {"", "missing", "chrome"} :
          CASE path = "" ->
                 replay' = [replay EXCEPT
                    !.result = addLog([result EXCEPT
                        !.Success = FALSE,
                        !.ErrorMessage = <<"Chrome browser not found">>],
                        "error", -1),
                    !.browser = "not found",
                    !.rpc = "returned"]
            [] path = "missing" ->
                 replay' = [replay EXCEPT
                    !.result = addLog(addLog([result EXCEPT
                        !.Success = FALSE,
                        !.ErrorMessage =
                            <<"Chrome executable not accessible", "error">>],
                        "info", -1), "error", -1),
                    !.browser = "not accessible",
                    !.rpc = "returned"]
            [] OTHER ->
                 replay' = [replay EXCEPT
                    !.result = addLog(result, "info", -1),
                    !.browser = "found",
                    !.rpc = "emulate"]
    /\ ReplayFrame

\* The browser context with its 10 minute deadline is made; then the log
\* entry and chromedp.Run(ctx, chromedp.EmulateViewport(...)): an error is
\* logged as a warning and the call goes on.
EmulateViewportFatal ==
    /\ rpc = "emulate"
    /\ \E err \in Run :
          IF err = "ok"
          THEN replay' = [replay EXCEPT
                  !.result = addLog(addLog(result, "info", -1), "info", -1),
                  !.rpc = "navigate"]
          ELSE replay' = [replay EXCEPT
                  !.result = [addLog(addLog(result, "info", -1), "error", -1)
                      EXCEPT !.ErrorMessage = <<"Failed to set viewport", err>>],
                  !.rpc = "returned"]
    /\ ReplayFrame
EmulateViewport ==
    /\ rpc = "emulate"
    /\ \E err \in Run :
          replay' = [replay EXCEPT
             !.result = addLog(addLog(result, "info", -1),
                               IF err = "ok" THEN "info" ELSE "warn", -1),
             !.rpc = "navigate"]
    /\ ReplayFrame

\* chromedp.Run(ctx, chromedp.Navigate(testCase.TargetURL)): an error ends
\* the call.
NavigateIgnoringError ==
    /\ rpc = "navigate"
    /\ \E err \in Run :
          replay' = [replay EXCEPT
             !.result = addLog(result, "info", -1),
             !.navigated = IF err = "ok" THEN "ok" ELSE "failed",
             !.rpc = "ready"]
    /\ ReplayFrame
Navigate ==
    /\ rpc = "navigate"
    /\ \E err \in Run :
          IF err = "ok"
          THEN replay' = [replay EXCEPT
                  !.result = addLog(result, "info", -1),
                  !.navigated = "ok",
                  !.rpc = "ready"]
          ELSE replay' = [replay EXCEPT
                  !.result = [addLog(result, "info", -1) EXCEPT
                     !.ErrorMessage = <<"Failed to navigate to URL", err>>],
                  !.navigated = "failed",
                  !.rpc = "returned"]
    /\ ReplayFrame

\* The wait for the page (Sleep, WaitReady "body"): on an error two warnings
\* are logged and the call goes on.  Then the page title and URL are read
\* (errors ignored) and logged.
WaitReady ==
    /\ rpc = "ready"
    /\ \E err \in Run :
          replay' = [replay EXCEPT
             !.result =
                IF err = "ok"
                THEN addLog(addLog(addLog(result, "info", -1), "info", -1),
                            "info", -1)
                ELSE addLog(addLog(addLog(addLog(result, "info", -1),
                            "warn", -1), "warn", -1), "info", -1),
             !.rpc = "initial"]
    /\ ReplayFrame

\* screenshotPath := te.takeScreenshot(ctx, "initial", 0)
InitialScreenshot ==
    /\ rpc = "initial"
    /\ \E saved \in Captures :
          replay' = [replay EXCEPT
             !.result = takeScreenshot(result, "initial", 0, saved),
             !.lost = Lost(saved),
             !.rpc = "loop"]
    /\ ReplayFrame

\* for i, step := range steps: the log entry, err = te.executeStep(ctx, step,
\* i); on an error the message is set and logged and the error screenshot
\* comes next, else the completion is logged.
ReplayStepLoggingOnce ==
    /\ rpc = "loop"
    /\ stepi < Len(steps)
    /\ \E err \in executeStep(steps[stepi + 1]) :
          IF err # "ok"
          THEN replay' = [replay EXCEPT
                  !.attempts = Append(@, [index |-> stepi, err |-> err]),
                  !.result = addLog([result EXCEPT
                     !.ErrorMessage = <<"Step failed", stepi + 1, err>>],
                     "error", stepi),
                  !.rpc = "error"]
          ELSE replay' = [replay EXCEPT
                  !.attempts = Append(@, [index |-> stepi, err |-> err]),
                  !.result = addLog(result, "info", stepi),
                  !.rpc = "step"]
    /\ ReplayFrame
ReplayStepContinuing ==
    /\ rpc = "loop"
    /\ stepi < Len(steps)
    /\ \E err \in executeStep(steps[stepi + 1]) :
          IF err # "ok"
          THEN replay' = [replay EXCEPT
                  !.attempts = Append(@, [index |-> stepi, err |-> err]),
                  !.result = addLog([addLog(result, "info", stepi) EXCEPT
                     !.ErrorMessage = <<"Step failed", stepi + 1, err>>],
                     "error", stepi),
                  !.rpc = "step"]
          ELSE replay' = [replay EXCEPT
                  !.attempts = Append(@, [index |-> stepi, err |-> err]),
                  !.result = addLog(addLog(result, "info", stepi),
                                    "info", stepi),
                  !.rpc = "step"]
    /\ ReplayFrame
ReplayStep ==
    /\ rpc = "loop"
    /\ stepi < Len(steps)
    /\ \E err \in executeStep(steps[stepi + 1]) :
          IF err # "ok"
          THEN replay' = [replay EXCEPT
                  !.attempts = Append(@, [index |-> stepi, err |-> err]),
                  !.result = addLog([addLog(result, "info", stepi) EXCEPT
                     !.ErrorMessage = <<"Step failed", stepi + 1, err>>],
                     "error", stepi),
                  !.rpc = "error"]
          ELSE replay' = [replay EXCEPT
                  !.attempts = Append(@, [index |-> stepi, err |-> err]),
                  !.result = addLog(addLog(result, "info", stepi),
                                    "info", stepi),
                  !.rpc = "step"]
    /\ ReplayFrame

\* The error screenshot, te.takeScreenshot(ctx, "error", i), and the return.
ErrorScreenshot ==
    /\ rpc = "error"
    /\ \E saved \in Captures :
          replay' = [replay EXCEPT
             !.result = takeScreenshot(result, "error", stepi, saved),
             !.lost = Lost(saved),
             !.rpc = "returned"]
    /\ ReplayFrame

\* After a step that succeeded: the screenshot if shouldTakeScreenshot(step),
\* the delay between steps (its error is ignored), and the next i.
StepScreenshot ==
    /\ rpc = "step"
    /\ IF shouldTakeScreenshot(steps[stepi + 1])
       THEN \E saved \in Captures :
               replay' = [replay EXCEPT
                  !.result = takeScreenshot(result, "step", stepi, saved),
                  !.lost = Lost(saved),
                  !.stepi = stepi + 1,
                  !.rpc = "loop"]
       ELSE replay' = [replay EXCEPT !.stepi = stepi + 1, !.rpc = "loop"]
    /\ ReplayFrame

\* After the loop: te.takeScreenshot(ctx, "final", len(steps)).
FinalScreenshot ==
    /\ rpc = "loop"
    /\ stepi = Len(steps)
    /\ \E saved \in Captures :
          replay' = [replay EXCEPT
             !.result = takeScreenshot(result, "final", Len(steps), saved),
             !.lost = Lost(saved),
             !.rpc = "metrics"]
    /\ ReplayFrame

\* collectPerformanceMetrics reads three keys of the JSON text the page
\* returns.  For each it finds the key followed by quote and colon and parses
\* the text from a fixed offset after the start of the key; the value starts
\* Len(key) + 2 characters after it.
MetricKeys == {"domContentLoaded", "memoryUsage", "networkRequests"}
KeyLen ==
    [domContentLoaded |-> 16, memoryUsage |-> 11, networkRequests |-> 15]
ValueOffset ==
    [domContentLoaded |-> 17, memoryUsage |-> 13, networkRequests |-> 17]

\* parseFloat of the text cut at the offset, for a key whose value is 0 or
\* above zero (1): it reads digits and stops at the first other character,
\* so a text that starts before the value gives 0.
parseFloat(key, value) ==
    IF ValueOffset[key] = KeyLen[key] + 2 THEN value ELSE 0

\* metric := &models.PerformanceMetric{}; a field is set when the parsed
\* value is above zero.  An evaluation that fails returns the record as it is.
ZeroMetric ==
    [DOMContentLoaded |-> 0, MemoryUsage |-> 0, NetworkRequests |-> 0,
     PageLoadTime |-> 0]
Parsed(key, positive) == parseFloat(key, IF key \in positive THEN 1 ELSE 0)
Metric(err, positive) ==
    IF err # "ok"
    THEN ZeroMetric
    ELSE [ZeroMetric EXCEPT
            !.DOMContentLoaded = Parsed("domContentLoaded", positive),
            !.MemoryUsage = Parsed("memoryUsage", positive),
            !.NetworkRequests = Parsed("networkRequests", positive)]

\* The data of the page: any of the keys may have no value above zero.
Samples ==
    {[err |-> err, positive |-> IF err = "ok" THEN p ELSE {}] :
        err \in Run, p \in SUBSET MetricKeys}

\* result.Metrics = te.collectPerformanceMetrics(ctx), then PageLoadTime is
\* set to the time since the start (above zero: 1), Success = true, the last
\* log entry and the return.
MetricsDecidesSuccess ==
    /\ rpc = "metrics"
    /\ \E s \in Samples :
          replay' = [replay EXCEPT
             !.sample = s,
             !.result = addLog([result EXCEPT
                 !.Metrics = <<[Metric(s.err, s.positive) EXCEPT
                                  !.PageLoadTime = 1]>>,
                 !.Success = (s.err = "ok")], "info", -1),
             !.rpc = "returned"]
    /\ ReplayFrame
MetricsNilOnError ==
    /\ rpc = "metrics"
    /\ \E s \in Samples :
          replay' = [replay EXCEPT
             !.sample = s,
             !.result = addLog([result EXCEPT
                 !.Metrics = IF s.err = "ok"
                             THEN <<[Metric(s.err, s.positive) EXCEPT
                                       !.PageLoadTime = 1]>>
                             ELSE <<>>,
                 !.Success = TRUE], "info", -1),
             !.rpc = "returned"]
    /\ ReplayFrame
collectPerformanceMetrics ==
    /\ rpc = "metrics"
    /\ \E s \in Samples :
          replay' = [replay EXCEPT
             !.sample = s,
             !.result = addLog([result EXCEPT
                 !.Metrics = <<[Metric(s.err, s.positive) EXCEPT
                                  !.PageLoadTime = 1]>>,
                 !.Success = TRUE], "info", -1),
             !.rpc = "returned"]
    /\ ReplayFrame

\* ctx, cancel = context.WithTimeout(ctx, 10*time.Minute): the deadline
\* passes while the call is between the making of ctx and its return.
DeadlineExceeded ==
    /\ rpc \in {"emulate", "navigate", "ready", "initial", "loop", "step",
                "error", "metrics"}
    /\ ~expired
    /\ replay' = [replay EXCEPT !.expired = TRUE]
    /\ ReplayFrame

\* A call of executeTestCase on any test case of at most MaxSteps steps.
ReplayInit ==
    /\ InitExecutor
    /\ maxWorkers = 1
    /\ NewManager
    /\ \E caseSteps \in StepSeqs : replay = Call(caseSteps)
    /\ NoHandlers

ReplayNext ==
    \/ GetSteps
    \/ GetChromePath
    \/ EmulateViewport
    \/ Navigate
    \/ WaitReady
    \/ InitialScreenshot
    \/ ReplayStep
    \/ ErrorScreenshot
    \/ StepScreenshot
    \/ FinalScreenshot
    \/ collectPerformanceMetrics
    \/ DeadlineExceeded

ReplaySpec == ReplayInit /\ [][ReplayNext]_vars

(***************************************************************************)
(* What the claims speak of.                                               *)
(***************************************************************************)
Submitted(j) == j <= njobs
Dequeued(j) == replays[j] > 0
Published(j) == sent[j] > 0
\* The call returned the job's result channel.
Accepted(j) == spc[j] \in {"wait", "done"}
\* Submitted and not finished executing: waiting in the send, in the queue or
\* in replay (or lost in a send that panicked).
InFlight(j) == Submitted(j) /\ (Dequeued(j) => j \in Replaying)
Busy(w) == wpc[w] \in {"exec", "publish"}

\* C1: at every moment the jobs that a worker has dequeued and whose result
\* is not yet published number at most maxWorkers.
C1_AtMostMaxWorkersInReplay ==
    Cardinality({j \in Jobs : Dequeued(j) /\ ~Published(j)}) <= maxWorkers

\* C1 witness: two workers were started and both hold a dequeued, unpublished
\* job while more jobs wait in the queue.
C1_Witness ==
    /\ maxWorkers = 2
    /\ Cardinality({j \in Jobs : Dequeued(j) /\ ~Published(j)}) = 2
    /\ Len(workQueue) >= 2

\* C2: the queue never holds more than 2 x maxWorkers jobs; a call that finds
\* it full does not return in that step, a waiting call returns only from a
\* state where the queue has room, and room is made only by a worker's
\* dequeue; when the call returns its job is the new tail of the queue, with
\* no job dropped and the process alive.
C2_Backpressure ==
    /\ [](Len(workQueue) <= 2 * maxWorkers)
    /\ [][\A j \in Jobs :
            (spc[j] = "idle" /\ Len(workQueue) = 2 * maxWorkers)
                => spc'[j] # "wait"]_vars
    /\ [][\A j \in Jobs :
            (spc[j] = "send" /\ spc'[j] = "wait")
                => /\ Len(workQueue) < 2 * maxWorkers
                   /\ workQueue' = Append(workQueue, j)
                   /\ ~crashed']_vars
    /\ [][Len(workQueue') < Len(workQueue)
            => \E w \in AllWorkers :
                   /\ wpc[w] = "recv" /\ wpc'[w] = "exec"
                   /\ wjob'[w] = Head(workQueue)
                   /\ workQueue' = Tail(workQueue)]_vars

\* C2 witness: a call waits in its send with the queue full and every worker
\* busy, while an earlier call that also found the queue full has returned and
\* its job is in the queue.
C2_Witness ==
    \E j, k \in Jobs :
        /\ spc[j] = "send"
        /\ Len(workQueue) = 2 * maxWorkers
        /\ \A w \in Workers : Busy(w)
        /\ k \in waited /\ spc[k] = "wait" /\ k \in Queued

\* C3: once the caller has received a job's result, and no other job with the
\* same execution id is in flight, IsRunning(id) is false and
\* GetRunningCount() does not count the id.
C3_NoLeakAfterResult ==
    \A j \in Jobs :
        (/\ spc[j] = "done"
         /\ \A k \in Jobs \ {j} : eid[k] = eid[j] => ~InFlight(k))
            => /\ ~IsRunning(eid[j])
               /\ GetRunningCount = Cardinality(running \ {eid[j]})

\* C3 witness: a caller has its result, no other job shares its id, and
\* another execution is still counted as running.
C3_Witness ==
    \E j \in Jobs :
        /\ spc[j] = "done"
        /\ \A k \in Jobs \ {j} : eid[k] # eid[j]
        /\ GetRunningCount >= 1
        /\ \E k \in Jobs : k \in Replaying

\* C4: every job whose submission returned eventually has a result on its
\* result channel, never more than one, and a result in the channel is never
\* written again.
C4_ExactlyOneResult ==
    /\ \A j \in Jobs : [](sent[j] <= 1)
    /\ [][\A j \in Jobs :
            (resultChan[j] # <<>> /\ resultChan'[j] # <<>>)
                => resultChan'[j] = resultChan[j]]_vars
    /\ \A j \in Jobs : Accepted(j) ~> Published(j)

\* C5 as claimed: an id is in the running set exactly when a job with that id
\* is submitted and not finished; IsRunning and GetExecutionStatus tell
\* exactly whether the execution is in flight.
C5_RunningIffInFlight ==
    \A id \in ExecIds :
        /\ IsRunning(id) <=> (\E j \in Jobs : InFlight(j) /\ eid[j] = id)
        /\ (GetExecutionStatus(id) = "running")
               <=> (\E j \in Jobs : InFlight(j) /\ eid[j] = id)

\* C5 amended: an id is in the running set only if a job with that id is
\* submitted and not finished; every submission puts its id in the set, and
\* an id leaves the set only when a worker finishes a job with that id or
\* CancelExecution(id) returns true.
C5_RunningOnlyIfInFlight ==
    /\ [](\A id \in ExecIds :
            (IsRunning(id) \/ GetExecutionStatus(id) = "running")
                => \E j \in Jobs : InFlight(j) /\ eid[j] = id)
    /\ [][\A j \in Jobs :
            (spc[j] = "idle" /\ spc'[j] # "idle") => eid'[j] \in running']_vars
    /\ [][\A id \in ExecIds :
            (id \in running /\ id \notin running')
                => \/ ret' = [op |-> "CancelExecution", id |-> id, value |-> TRUE]
                   \/ \E w \in AllWorkers :
                          /\ wpc[w] = "exec" /\ wpc'[w] = "publish"
                          /\ eid[wjob[w]] = id]_vars

\* C5 witness: CancelExecution has just returned true for an id whose job is
\* still in replay, so the id is out of the set with its job in flight, while
\* another id is in the set with its job in the queue.
C5_Witness ==
    /\ ret.op = "CancelExecution" /\ ret.value
    /\ \E j \in Replaying : eid[j] = ret.id
    /\ \E k \in Queued : IsRunning(eid[k])

\* C6: a CancelExecution(id) step returns true exactly when id was in the
\* running set, leaves the set without id and otherwise as it was, and
\* changes nothing else.
C6_CancelExact ==
    [][ret'.op = "CancelExecution"
        => /\ ret'.value = (ret'.id \in running)
           /\ running' = running \ {ret'.id}
           /\ UNCHANGED <<maxWorkers, workQueue, closed, njobs, eid, spc,
                          resultChan, wpc, wjob, replays, sent, waited,
                          crashed>>]_vars

\* C6 witness: CancelExecution has returned true while the queue holds jobs
\* and another id stays in the running set.
C6_Witness ==
    /\ ret.op = "CancelExecution" /\ ret.value
    /\ workQueue # <<>>
    /\ running # {}

\* C7: after CancelExecution(id) returned true, a job with that id that is in
\* the queue or in replay still gets its result published.
C7_CancelledJobStillPublished ==
    \A j \in Jobs :
        (/\ ret.op = "CancelExecution" /\ ret.value /\ ret.id = eid[j]
         /\ (j \in Queued \/ j \in Replaying))
            ~> Published(j)

\* C8: every job in the queue or held by a worker when the queue is closed
\* gets its result published, and every worker ends once the queue is
\* drained.  (Nothing is enqueued after the close, so a job so placed while
\* closed holds was there when Stop was called.)
C8_ShutdownDropsNoJob ==
    /\ \A j \in Jobs : (closed /\ (j \in Queued \/ j \in Held)) ~> Published(j)
    /\ closed ~> (\A w \in Workers : wpc[w] = "exit")

\* C9: a call of ExecuteTestCaseWithOptions that ends after Stop without
\* enqueuing its job leaves the process alive and its id out of the running
\* set.
C9_StoppedRejectsSubmit ==
    \A j \in Jobs :
        (closed /\ Submitted(j) /\ spc[j] \notin {"send", "wait", "done"})
            => (~crashed /\ ~IsRunning(eid[j]))

\* C10: no job is replayed twice, no two workers hold the same job, and a
\* dequeued job is no longer in the queue.
C10_OneWorkerPerJob ==
    \A j \in Jobs :
        /\ replays[j] <= 1
        /\ Cardinality({w \in AllWorkers : wjob[w] = j}) <= 1
        /\ Dequeued(j) => j \notin Queued

\* C10 witness: two workers replay two different jobs while a third job, once
\* replayed, has its result published.
C10_Witness ==
    \E i, j, k \in Jobs :
        /\ i # j
        /\ i \in Replaying /\ j \in Replaying
        /\ replays[k] = 1 /\ Published(k)

(***************************************************************************)
(* The claims about executeTestCase, checked under ReplaySpec.             *)
(***************************************************************************)
Returned == rpc = "returned"
Attempted == Len(attempts)
\* The step that failed (from 0), or -1 when no step has failed.
FailedStep ==
    IF Attempted > 0 /\ attempts[Attempted].err # "ok"
    THEN attempts[Attempted].index
    ELSE -1
\* Every step of the sequence was executed without error.
AllStepsSucceeded ==
    /\ Attempted = Len(steps)
    /\ \A n \in 1..Attempted : attempts[n].err = "ok"
\* The log entries that carry step index k.
StepLogs(k) ==
    Cardinality({n \in 1..Len(result.Logs) : result.Logs[n].StepIndex = k})

\* C11: the driver attempts the steps in index order 0, 1, 2, ..., step i+1
\* only after step i succeeded, so the attempted steps are a prefix of the
\* sequence; after the first failing step nothing more is attempted, Success
\* stays false, and no log entry or screenshot carries the index of a later
\* step.
C11_StepsInOrderStopAtFirstFailure ==
    /\ Attempted <= Len(steps)
    /\ \A n \in 1..Attempted : attempts[n].index = n - 1
    /\ \A n \in 1..(Attempted - 1) : attempts[n].err = "ok"
    /\ stepi \in {Attempted - 1, Attempted}
    /\ \A n \in 1..Len(result.Logs) : result.Logs[n].StepIndex < Attempted
    /\ FailedStep >= 0 =>
          /\ rpc \in {"error", "returned"}
          /\ ~result.Success
          /\ \A n \in 1..Len(result.Logs) :
                result.Logs[n].StepIndex <= FailedStep
          /\ \A n \in 1..Len(result.Screenshots) :
                result.Screenshots[n].StepIndex <= FailedStep

\* A replay of three steps has returned after step 0 succeeded and step 1
\* failed.
C11_Witness ==
    /\ Returned
    /\ Len(steps) = 3
    /\ Attempted = 2
    /\ FailedStep = 1

\* C12 as claimed: a replay that has failed at step k has exactly one log
\* entry with a step index per attempted step (two in all, for indices 0 and
\* 1, when step 1 of three fails) and none for a later step.
C12_OneLogPerAttemptedStep ==
    (Returned /\ FailedStep >= 0) =>
        \A k \in 0..(Len(steps) - 1) :
            StepLogs(k) = IF k <= FailedStep THEN 1 ELSE 0

\* C12 as amended: a replay that has failed at step k has exactly two log
\* entries per attempted step, "Executing step" and then the completion or
\* the error (four in all when step 1 of three fails: two with index 0, two
\* with index 1), and none for a later step.
C12_TwoLogsPerAttemptedStep ==
    (Returned /\ FailedStep >= 0) =>
        /\ \A k \in 0..(Len(steps) - 1) :
              StepLogs(k) = IF k <= FailedStep THEN 2 ELSE 0
        /\ \A n \in 1..Len(result.Logs) :
              /\ result.Logs[n].StepIndex \in -1..FailedStep
              /\ result.Logs[n].StepIndex >= 0 =>
                    result.Logs[n].Level \in {"info", "error"}
        /\ result.Logs[Len(result.Logs)] =
              [Level |-> "error", StepIndex |-> FailedStep]

\* Step 1 of three has failed after step 0 succeeded, and the result with its
\* four step-scoped entries has been returned.
C12_Witness ==
    /\ Returned
    /\ Len(steps) = 3
    /\ FailedStep = 1
    /\ StepLogs(0) = 2
    /\ StepLogs(1) = 2
    /\ StepLogs(2) = 0

\* C13: the returned result has Success = true exactly when the navigation
\* succeeded and every step of the sequence was executed without error;
\* unparsable steps, a missing browser, a failed navigation and a failing
\* step all give Success = false, and Success is never true before the end.
C13_SuccessIffAllStepsSucceeded ==
    /\ Returned =>
          (result.Success <=> (navigated = "ok" /\ AllStepsSucceeded))
    /\ ~Returned => ~result.Success

\* A replay of three steps has returned with Success = true.
C13_Witness ==
    /\ Returned
    /\ result.Success
    /\ Len(steps) = 3
    /\ AllStepsSucceeded

\* The step types after which the claim expects a capture, and the captures
\* it expects of a run whose steps all succeed: the initial one, one per step
\* of such a type in step order, the final one.
KeyTypes == {"click", "submit", "change"}
RECURSIVE KeyCaptures(_)
KeyCaptures(n) ==
    IF n = 0
    THEN <<>>
    ELSE KeyCaptures(n - 1) \o
            (IF steps[n] \in KeyTypes
             THEN <<[Tag |-> "step", StepIndex |-> n - 1]>>
             ELSE <<>>)
ExpectedCaptures ==
    <<[Tag |-> "initial", StepIndex |-> 0]>> \o KeyCaptures(Len(steps)) \o
    <<[Tag |-> "final", StepIndex |-> Len(steps)]>>
KeySteps == Cardinality({n \in 1..Len(steps) : steps[n] \in KeyTypes})

\* a is b with some of its elements left out.
RECURSIVE IsSubseq(_, _)
IsSubseq(a, b) ==
    IF a = <<>> THEN TRUE
    ELSE IF b = <<>> THEN FALSE
    ELSE IF Head(a) = Head(b) THEN IsSubseq(Tail(a), Tail(b))
    ELSE IsSubseq(a, Tail(b))

\* C14 as claimed: when all the steps succeed, Screenshots has exactly
\* 2 + (number of click, submit and change steps) entries: the initial
\* capture, the per-step captures in step order, the final capture.
C14_ExactlyTwoPlusKeySteps ==
    (Returned /\ result.Success) =>
        /\ Len(result.Screenshots) = 2 + KeySteps
        /\ result.Screenshots = ExpectedCaptures

\* C14 as amended: when all the steps succeed, 2 + (number of click, submit
\* and change steps) captures are attempted, and Screenshots holds, in that
\* order, those that were saved: a capture that fails is left out, so the
\* list has at most 2 + k entries, and exactly 2 + k when none fails; steps of
\* another type add no entry.
C14_SavedCapturesInOrder ==
    (Returned /\ result.Success) =>
        /\ IsSubseq(result.Screenshots, ExpectedCaptures)
        /\ Len(result.Screenshots) + lost = 2 + KeySteps

\* Three steps, one of them a click and one an input, have all succeeded; one
\* capture was lost and the others are in the returned result.
C14_Witness ==
    /\ Returned
    /\ result.Success
    /\ steps = <<"click", "input", "submit">>
    /\ lost = 1
    /\ Len(result.Screenshots) = 3

\* C15: on every failure path of executeTestCase, a result with
\* Success = false has a non-empty Logs list.
C15_FailureIsLogged ==
    (Returned /\ ~result.Success) => result.Logs # <<>>

\* C16: a job whose deadline passed before executeTestCase returned never
\* reports Success = true, wherever the deadline fell (the claim adds that the
\* ErrorMessage of the failure reports the timeout).
C16_DeadlineFailsTheJob ==
    (Returned /\ expired) => ~result.Success

\* C17: when no browser can be acquired (no Chrome path, or the path is not
\* accessible) the job ends at once with Success = false and a non-empty
\* ErrorMessage: no step is attempted, nothing is navigated to and no
\* screenshot is taken.
C17_NoBrowserEndsTheJob ==
    browser \in {"not found", "not accessible"} =>
        /\ Returned
        /\ ~result.Success
        /\ result.ErrorMessage # <<>>
        /\ attempts = <<>>
        /\ navigated = "no"
        /\ result.Screenshots = <<>>
        /\ lost = 0

\* The Chrome path was found but is not accessible, for a test case of three
\* steps, and the call has returned.
C17_Witness ==
    /\ browser = "not accessible"
    /\ Returned
    /\ Len(steps) = 3

\* C18: when the navigation to the target URL fails the job ends at once with
\* Success = false and a non-empty ErrorMessage: no step is attempted, no
\* screenshot is taken and no metrics are collected.
C18_NavigationFailureEndsTheJob ==
    navigated = "failed" =>
        /\ Returned
        /\ ~result.Success
        /\ result.ErrorMessage # <<>>
        /\ result.ErrorMessage[1] = "Failed to navigate to URL"
        /\ attempts = <<>>
        /\ result.Screenshots = <<>>
        /\ lost = 0
        /\ result.Metrics = <<>>

\* The navigation has failed for a test case of three steps.
C18_Witness ==
    /\ navigated = "failed"
    /\ Returned
    /\ Len(steps) = 3

\* C19: in every result that executeTestCase returns, Success = false
\* implies a non-empty ErrorMessage and Success = true implies an empty one.
C19_ErrorMessageIffFailure ==
    Returned => (result.Success <=> result.ErrorMessage = <<>>)

\* A result with Success = false has been returned after a step failed, and
\* it carries the step's message.
C19_Witness ==
    /\ Returned
    /\ ~result.Success
    /\ FailedStep = 1
    /\ result.ErrorMessage[1] = "Step failed"

(***************************************************************************)
(* package recorder: RecorderManager and its ChromeRecorder sessions.      *)
(*                                                                         *)
(* Every method of RecorderManager runs under rm.mutex from entry to       *)
(* return, so a call is one step.                                          *)
(***************************************************************************)
RecorderFrame == UNCHANGED <<executorVars, replay, handlers, database>>

\* The error a call of a RecorderManager method returned, and whether the call
\* made a browser context.
Returns(op, err, context) == [op |-> op, err |-> err, context |-> context]

\* recorder, exists := rm.recorders[sessionID]
Registered(sessionID) == sessionID \in DOMAIN recorders

\* rm.recorders[sessionID] = recorder
Put(m, key, value) ==
    [k \in DOMAIN m \cup {key} |-> IF k = key THEN value ELSE m[k]]

\* delete(rm.recorders, sessionID)
Delete(m, key) == [k \in DOMAIN m \ {key} |-> m[k]]

\* The ChromeRecorder of a start that succeeded: isRecording = true, steps is
\* fresh, listenForEvents is running.
Started(sessionID) ==
    [NoRecorder EXCEPT !.sessionID = sessionID,
                       !.isRecording = TRUE,
                       !.lpc = "tick"]

\* RecorderManager.StartRecording(sessionID, targetURL, device): an error
\* when the map has the key; else NewChromeRecorder and its StartRecording:
\* an error without Chrome, else the browser context is made and the page is
\* opened and given the recording script; when that fails the context is
\* cancelled and the error returned, else isRecording = true, steps is fresh,
\* listenForEvents is started, the recorder is put in the map and nil is
\* returned.  Session names are opaque: 1 is used first, then 2, ...
StartRecordingReplacing(sessionID) ==
    /\ nobjects < MaxObjects
    /\ \A i \in 1..(sessionID - 1) :
          \E o \in 1..nobjects : recorder[o].sessionID = i
    /\ manager' = [manager EXCEPT
          !.nobjects = nobjects + 1,
          !.recorder = Append(recorder, Started(sessionID)),
          !.recorders = Put(recorders, sessionID, nobjects + 1),
          !.rret = Returns("StartRecording", "nil", TRUE)]
    /\ RecorderFrame
StartRecordingRegisteringFirst(sessionID) ==
    IF Registered(sessionID)
    THEN /\ manager' = [manager EXCEPT
               !.rret = Returns("StartRecording", "already exists", FALSE)]
         /\ RecorderFrame
    ELSE /\ \A i \in 1..(sessionID - 1) :
               \E o \in 1..nobjects : recorder[o].sessionID = i
         /\ nobjects < MaxObjects
         /\ \E err \in {"Chrome browser not found",
                        "failed to start recording", "nil"} :
               manager' = [manager EXCEPT
                  !.nobjects = nobjects + 1,
                  !.recorder = Append(recorder,
                      IF err = "nil"
                      THEN Started(sessionID)
                      ELSE [NoRecorder EXCEPT !.sessionID = sessionID]),
                  !.recorders = Put(recorders, sessionID, nobjects + 1),
                  !.rret = Returns("StartRecording", err,
                                   err # "Chrome browser not found")]
         /\ RecorderFrame
StartRecording(sessionID) ==
    IF Registered(sessionID)
    THEN /\ manager' = [manager EXCEPT
               !.rret = Returns("StartRecording", "already exists", FALSE)]
         /\ RecorderFrame
    ELSE /\ \A i \in 1..(sessionID - 1) :
               \E o \in 1..nobjects : recorder[o].sessionID = i
         /\ \E err \in {"Chrome browser not found",
                        "failed to start recording", "nil"} :
               IF err = "nil"
               THEN /\ nobjects < MaxObjects
                    /\ manager' = [manager EXCEPT
                          !.nobjects = nobjects + 1,
                          !.recorder = Append(recorder, Started(sessionID)),
                          !.recorders =
                              Put(recorders, sessionID, nobjects + 1),
                          !.rret = Returns("StartRecording", err, TRUE)]
               ELSE manager' = [manager EXCEPT
                       !.rret = Returns("StartRecording", err,
                                        err # "Chrome browser not found")]
         /\ RecorderFrame

\* RecorderManager.StopRecording(sessionID): an error when the map has no such
\* key; else the recorder's StopRecording: an error when it is not recording,
\* else r.cancel() and isRecording = false.  The key stays in the map.
StopRecordingDeleting(sessionID) ==
    /\ IF ~Registered(sessionID)
       THEN manager' = [manager EXCEPT
               !.rret = Returns("StopRecording", "not found", FALSE)]
       ELSE IF ~recorder[recorders[sessionID]].isRecording
       THEN manager' = [manager EXCEPT
               !.rret = Returns("StopRecording",
                                "no recording in progress", FALSE)]
       ELSE manager' = [manager EXCEPT
               !.rret = Returns("StopRecording", "nil", FALSE),
               !.recorders = Delete(recorders, sessionID),
               !.recorder = [recorder EXCEPT ![recorders[sessionID]] =
                   [@ EXCEPT !.cancelled = TRUE, !.isRecording = FALSE]]]
    /\ RecorderFrame
StopRecording(sessionID) ==
    /\ IF ~Registered(sessionID)
       THEN manager' = [manager EXCEPT
               !.rret = Returns("StopRecording", "not found", FALSE)]
       ELSE IF ~recorder[recorders[sessionID]].isRecording
       THEN manager' = [manager EXCEPT
               !.rret = Returns("StopRecording",
                                "no recording in progress", FALSE)]
       ELSE manager' = [manager EXCEPT
               !.rret = Returns("StopRecording", "nil", FALSE),
               !.recorder = [recorder EXCEPT ![recorders[sessionID]] =
                   [@ EXCEPT !.cancelled = TRUE, !.isRecording = FALSE]]]
    /\ RecorderFrame

\* RecorderManager.CleanupRecording(sessionID): delete the key when the map
\* has it; nil is returned either way.
CleanupRecordingKeeping(sessionID) ==
    /\ manager' = [manager EXCEPT
          !.rret = Returns("CleanupRecording", "nil", FALSE)]
    /\ RecorderFrame
CleanupRecording(sessionID) ==
    /\ manager' = [manager EXCEPT
          !.recorders = Delete(recorders, sessionID),
          !.rret = Returns("CleanupRecording", "nil", FALSE)]
    /\ RecorderFrame

\* The recording script in the page of recorder o: addEvent pushes a user
\* event on window.autoUIRecorder.events.
addEvent(o) ==
    /\ o \in 1..nobjects
    /\ recorder[o].lpc # "off"
    /\ ~recorder[o].cancelled
    /\ nevents < MaxEvents
    /\ manager' = [manager EXCEPT
          !.nevents = nevents + 1,
          !.recorder = [recorder EXCEPT ![o].page = Append(@, nevents + 1)],
          !.rret = NoRRet]
    /\ RecorderFrame

\* RecorderManager.GetRecorder(sessionID), which reads under rm.mutex and
\* writes nothing: the recorder of the map (0: nil) and whether the map has
\* the key.
GetRecorder(sessionID) ==
    [recorder |-> IF Registered(sessionID) THEN recorders[sessionID] ELSE 0,
     exists |-> Registered(sessionID)]

\* RecorderManager.GetRecordingStatus(sessionID), which reads under rm.mutex
\* and the recorder's mutex and writes nothing: an error when the map has no
\* such key, else recorder.IsRecording() and a copy of the steps.
GetRecordingStatus(sessionID) ==
    IF ~Registered(sessionID)
    THEN [err |-> "not found", isRecording |-> FALSE, steps |-> <<>>]
    ELSE [err |-> "nil",
          isRecording |-> recorder[recorders[sessionID]].isRecording,
          steps |-> recorder[recorders[sessionID]].steps]

\* ChromeRecorder.SetWebSocketConnection(conn) on recorder o, with a
\* connection that was not used before: r.wsConn = conn.
SetWebSocketConnectionResending(o) ==
    /\ o \in 1..nobjects
    /\ nconns < MaxConns
    /\ manager' = [manager EXCEPT
          !.nconns = nconns + 1,
          !.recorder = [recorder EXCEPT ![o] =
              [@ EXCEPT !.wsConn = nconns + 1,
                        !.wire = @ \o [i \in 1..Len(recorder[o].steps) |->
                                 [conn |-> nconns + 1,
                                  event |-> recorder[o].steps[i]]]]],
          !.rret = NoRRet]
    /\ RecorderFrame
SetWebSocketConnection(o) ==
    /\ o \in 1..nobjects
    /\ nconns < MaxConns
    /\ manager' = [manager EXCEPT
          !.nconns = nconns + 1,
          !.recorder = [recorder EXCEPT ![o].wsConn = nconns + 1],
          !.rret = NoRRet]
    /\ RecorderFrame

\* listenForEvents of recorder o, one turn of the select: the goroutine
\* returns when r.ctx is done or r.isRecording is false; else getEvents() is
\* evaluated in the page, which hands over the events and empties the page's
\* list (an evaluation that fails, or that returns no event, changes nothing).
getEventsKeeping(o) ==
    [recorder[o] EXCEPT !.batch = recorder[o].page,
                        !.drained = @ \o recorder[o].page,
                        !.attached = @ \o [i \in 1..Len(recorder[o].page) |->
                                              recorder[o].wsConn],
                        !.lpc = "append"]
getEvents(o) ==
    [recorder[o] EXCEPT !.batch = recorder[o].page,
                        !.drained = @ \o recorder[o].page,
                        !.attached = @ \o [i \in 1..Len(recorder[o].page) |->
                                              recorder[o].wsConn],
                        !.page = <<>>,
                        !.lpc = "append"]
listenForEvents(o) ==
    /\ o \in 1..nobjects
    /\ recorder[o].lpc = "tick"
    /\ IF recorder[o].cancelled \/ ~recorder[o].isRecording
       THEN manager' = [manager EXCEPT
               !.recorder = [recorder EXCEPT ![o].lpc = "exit"],
               !.rret = NoRRet]
       ELSE /\ recorder[o].page # <<>>
            /\ manager' = [manager EXCEPT
                  !.recorder = [recorder EXCEPT ![o] = getEvents(o)],
                  !.rret = NoRRet]
    /\ RecorderFrame

\* listenForEvents of recorder o with the events of getEvents: under r.mutex,
\* r.steps = append(r.steps, events...); then, when r.wsConn is not nil, the
\* loop that writes each event (else the next turn of the select).  A
\* SetWebSocketConnection between the append and the test of r.wsConn has the
\* effect of one before the append, so the two are one step.
appendEvents(o) ==
    /\ o \in 1..nobjects
    /\ recorder[o].lpc = "append"
    /\ manager' = [manager EXCEPT
          !.recorder = [recorder EXCEPT ![o] =
              [@ EXCEPT !.steps = recorder[o].steps \o recorder[o].batch,
                        !.batch = IF recorder[o].wsConn = 0
                                  THEN <<>> ELSE recorder[o].batch,
                        !.lpc = IF recorder[o].wsConn = 0
                                THEN "tick" ELSE "write"]],
          !.rret = NoRRet]
    /\ RecorderFrame

\* for _, event := range events { r.wsConn.WriteMessage(...) }: one turn, the
\* message goes to the connection r.wsConn holds at that moment.
WriteMessageTwice(o) ==
    /\ o \in 1..nobjects
    /\ recorder[o].lpc = "write"
    /\ manager' = [manager EXCEPT
          !.recorder = [recorder EXCEPT ![o] =
              [@ EXCEPT !.wire = @ \o
                            <<[conn |-> recorder[o].wsConn,
                               event |-> Head(recorder[o].batch)],
                              [conn |-> recorder[o].wsConn,
                               event |-> Head(recorder[o].batch)]>>,
                        !.batch = Tail(@),
                        !.lpc = IF Len(recorder[o].batch) = 1
                                THEN "tick" ELSE "write"]],
          !.rret = NoRRet]
    /\ RecorderFrame
WriteMessage(o) ==
    /\ o \in 1..nobjects
    /\ recorder[o].lpc = "write"
    /\ manager' = [manager EXCEPT
          !.recorder = [recorder EXCEPT ![o] =
              [@ EXCEPT !.wire = Append(@,
                            [conn |-> recorder[o].wsConn,
                             event |-> Head(recorder[o].batch)]),
                        !.batch = Tail(@),
                        !.lpc = IF Len(recorder[o].batch) = 1
                                THEN "tick" ELSE "write"]],
          !.rret = NoRRet]
    /\ RecorderFrame

RecorderInit ==
    /\ InitExecutor
    /\ maxWorkers = 1
    /\ NoReplay
    /\ NoHandlers
    /\ NewManager

RecorderNext ==
    \/ \E sessionID \in SessionIds : StartRecording(sessionID)
    \/ \E sessionID \in SessionIds : StopRecording(sessionID)
    \/ \E sessionID \in SessionIds : CleanupRecording(sessionID)
    \/ \E o \in Objects : addEvent(o)
    \/ \E o \in Objects : listenForEvents(o)
    \/ \E o \in Objects : appendEvents(o)

\* The recording sessions while no subscriber connection is attached.
RecorderSpec == RecorderInit /\ [][RecorderNext]_vars

\* The recording sessions and their subscriber connections.
SessionNext ==
    \/ RecorderNext
    \/ \E o \in Objects : SetWebSocketConnection(o)
    \/ \E o \in Objects : WriteMessage(o)

SessionSpec == RecorderInit /\ [][SessionNext]_vars

(***************************************************************************)
(* The locks of package recorder: rm.mutex of the RecorderManager and      *)
(* r.mutex of each ChromeRecorder, both sync.RWMutex.  LockSpec follows    *)
(* the goroutines that call the methods, and the listenForEvents           *)
(* goroutines, from lock to lock; what the steps and the events hold is    *)
(* left out.                                                               *)
(***************************************************************************)
\* Goroutines that call the methods, at most one call each at a time.
MaxCallers == 2
Callers == 1..MaxCallers
\* The session ids the callers pass, and the recorders they make.
MaxLockSessions == 1
MaxLockObjects == 1
LockSessions == 1..MaxLockSessions
LockObjects == 1..MaxLockObjects
\* The listenForEvents goroutine of recorder o.
Poll(o) == 0 - o

\* A sync.RWMutex.  w: the goroutine whose Lock() has closed the mutex to new
\* readers (0: none); it is in its section once the readers have left.
\* pending: the goroutines whose Lock() waits behind it.  r: the goroutines
\* in an RLock section.  rwait: those whose RLock() waits for the writer.
Unlocked == [w |-> 0, r |-> {}, rwait |-> {}, pending |-> {}]
\* Lock() is called.
Lock(m, g) ==
    IF m.w = 0 THEN [m EXCEPT !.w = g] ELSE [m EXCEPT !.pending = @ \cup {g}]
\* A waiting Lock() goes on once the writer before it has unlocked.
TakeOver(m, g) == [m EXCEPT !.w = g, !.pending = @ \ {g}]
\* Lock() has returned.
Locked(m, g) == m.w = g /\ m.r = {}
\* Unlock(): the readers that waited enter together.
Unlock(m) == [m EXCEPT !.w = 0, !.r = m.rwait, !.rwait = {}]
\* RLock() is called.
RLock(m, g) ==
    IF m.w = 0 THEN [m EXCEPT !.r = @ \cup {g}]
               ELSE [m EXCEPT !.rwait = @ \cup {g}]
\* RLock() has returned.
RLocked(m, g) == g \in m.r
RUnlock(m, g) == [m EXCEPT !.r = @ \ {g}]

\* The calls under way: the method, where it is, its session id, and the
\* recorder it works on.
calls == manager.calls
NoCall == [op |-> "none", pc |-> "idle", sessionID |-> 0, o |-> 0]

\* The calls of a goroutine, up to the first Lock() or RLock():
\* RecorderManager's methods with a session id, and SetWebSocketConnection
\* on a recorder that GetRecorder returned earlier.  The callers run the
\* same code: the lowest-numbered idle one stands for whichever calls.
Enter(t) ==
    /\ calls[t].pc = "idle"
    /\ \A u \in 1..(t - 1) : calls[u].pc # "idle"
    /\ \/ \E op \in {"StartRecording", "StopRecording", "CleanupRecording"},
              sessionID \in LockSessions :
              manager' = [manager EXCEPT
                 !.calls[t] = [NoCall EXCEPT !.op = op, !.pc = "rm.Lock",
                                             !.sessionID = sessionID],
                 !.mutex = Lock(@, t)]
       \/ \E op \in {"GetRecorder", "GetRecordingStatus"},
              sessionID \in LockSessions :
              manager' = [manager EXCEPT
                 !.calls[t] = [NoCall EXCEPT !.op = op, !.pc = "rm.RLock",
                                             !.sessionID = sessionID],
                 !.mutex = RLock(@, t)]
       \/ \E o \in 1..nobjects :
              manager' = [manager EXCEPT
                 !.calls[t] = [NoCall EXCEPT !.op = "SetWebSocketConnection",
                                             !.pc = "r.Lock", !.o = o],
                 !.recorder[o].mutex = Lock(@, t)]
    /\ RecorderFrame

\* A Lock() of rm.mutex that waited behind a writer goes on.
rm_TakeOver(t) ==
    /\ t \in manager.mutex.pending
    /\ manager.mutex.w = 0
    /\ manager' = [manager EXCEPT !.mutex = TakeOver(@, t)]
    /\ RecorderFrame

\* A Lock() of a recorder's r.mutex that waited behind a writer goes on; g is
\* a caller or the recorder's listenForEvents.
r_TakeOver(g, o) ==
    /\ o \in 1..nobjects
    /\ g \in recorder[o].mutex.pending
    /\ recorder[o].mutex.w = 0
    /\ manager' = [manager EXCEPT !.recorder[o].mutex = TakeOver(@, g)]
    /\ RecorderFrame

\* rm.mutex.Lock() has returned.  CleanupRecording deletes the key and
\* unlocks.  StopRecording looks the recorder up: without it it unlocks and
\* returns, else it goes on to the recorder's StopRecording and its
\* r.mutex.Lock().  StartRecording returns when the key exists, else it goes
\* on to NewChromeRecorder and the recorder's StartRecording.
rm_Lock(t) ==
    /\ calls[t].pc = "rm.Lock"
    /\ Locked(manager.mutex, t)
    /\ CASE calls[t].op = "CleanupRecording" ->
               manager' = [manager EXCEPT
                  !.recorders = Delete(recorders, calls[t].sessionID),
                  !.mutex = Unlock(@),
                  !.calls[t] = NoCall]
         [] calls[t].op = "StopRecording" ->
               IF ~Registered(calls[t].sessionID)
               THEN manager' = [manager EXCEPT
                       !.mutex = Unlock(@),
                       !.calls[t] = NoCall]
               ELSE manager' = [manager EXCEPT
                       !.calls[t].pc = "r.Lock",
                       !.calls[t].o = recorders[calls[t].sessionID],
                       !.recorder[recorders[calls[t].sessionID]].mutex
                           = Lock(@, t)]
         [] calls[t].op = "StartRecording" ->
               IF Registered(calls[t].sessionID)
               THEN manager' = [manager EXCEPT
                       !.mutex = Unlock(@),
                       !.calls[t] = NoCall]
               ELSE manager' = [manager EXCEPT !.calls[t].pc = "run"]
    /\ RecorderFrame

\* ChromeRecorder.StartRecording under rm.mutex and the new recorder's
\* r.mutex: the browser calls return.  With an error both mutexes are
\* unlocked and the error returned; else isRecording = true and
\* listenForEvents is started, r.mutex still held.
StartRecording_Run(t) ==
    /\ calls[t].pc = "run"
    /\ \E err \in {"failed to start recording", "nil"} :
          IF err = "nil"
          THEN /\ nobjects < MaxLockObjects
               /\ manager' = [manager EXCEPT
                     !.nobjects = nobjects + 1,
                     !.recorder = Append(recorder,
                         [isRecording |-> TRUE, cancelled |-> FALSE,
                          lpc |-> "tick",
                          sessionID |-> calls[t].sessionID,
                          mutex |-> Lock(Unlocked, t)]),
                     !.calls[t].pc = "started",
                     !.calls[t].o = nobjects + 1]
          ELSE manager' = [manager EXCEPT
                  !.mutex = Unlock(@),
                  !.calls[t] = NoCall]
    /\ RecorderFrame

\* StartRecording_Return without the deferred r.mutex.Unlock() of the
\* recorder's StartRecording.
StartRecording_ReturnLocked(t) ==
    /\ calls[t].pc = "started"
    /\ manager' = [manager EXCEPT
          !.recorders = Put(recorders, calls[t].sessionID, calls[t].o),
          !.mutex = Unlock(@),
          !.calls[t] = NoCall]
    /\ RecorderFrame

\* The recorder's StartRecording returns nil (r.mutex.Unlock()), then
\* rm.recorders[sessionID] = recorder, rm.mutex.Unlock() and the return.
StartRecording_Return(t) ==
    /\ calls[t].pc = "started"
    /\ manager' = [manager EXCEPT
          !.recorder[calls[t].o].mutex = Unlock(@),
          !.recorders = Put(recorders, calls[t].sessionID, calls[t].o),
          !.mutex = Unlock(@),
          !.calls[t] = NoCall]
    /\ RecorderFrame

\* r.mutex.Lock() has returned.  The recorder's StopRecording, called under
\* rm.mutex: r.cancel() and isRecording = false when it is recording, then
\* both mutexes are unlocked.  SetWebSocketConnection: r.wsConn = conn.
r_Lock(t) ==
    /\ calls[t].pc = "r.Lock"
    /\ Locked(recorder[calls[t].o].mutex, t)
    /\ IF calls[t].op = "StopRecording"
       THEN manager' = [manager EXCEPT
               !.recorder[calls[t].o] =
                   [@ EXCEPT !.mutex = Unlock(@),
                             !.cancelled = @ \/ recorder[calls[t].o].isRecording,
                             !.isRecording = FALSE],
               !.mutex = Unlock(@),
               !.calls[t] = NoCall]
       ELSE manager' = [manager EXCEPT
               !.recorder[calls[t].o].mutex = Unlock(@),
               !.calls[t] = NoCall]
    /\ RecorderFrame

\* rm.mutex.RLock() has returned.  GetRecorder looks the key up and unlocks.
\* GetRecordingStatus unlocks and returns when the key is missing, else it
\* goes on to recorder.IsRecording() and its r.mutex.RLock(), rm.mutex held.
rm_RLock(t) ==
    /\ calls[t].pc = "rm.RLock"
    /\ RLocked(manager.mutex, t)
    /\ IF calls[t].op = "GetRecordingStatus" /\ Registered(calls[t].sessionID)
       THEN manager' = [manager EXCEPT
               !.calls[t].pc = "IsRecording",
               !.calls[t].o = recorders[calls[t].sessionID],
               !.recorder[recorders[calls[t].sessionID]].mutex = RLock(@, t)]
       ELSE manager' = [manager EXCEPT
               !.mutex = RUnlock(@, t),
               !.calls[t] = NoCall]
    /\ RecorderFrame

\* GetRecordingStatus: r.mutex.RLock() has returned, in recorder.IsRecording()
\* and then in recorder.GetSteps(); after the second, rm.mutex.RUnlock() and
\* the return.
r_RLock(t) ==
    /\ calls[t].pc \in {"IsRecording", "GetSteps"}
    /\ RLocked(recorder[calls[t].o].mutex, t)
    /\ IF calls[t].pc = "IsRecording"
       THEN manager' = [manager EXCEPT
               !.calls[t].pc = "GetSteps",
               !.recorder[calls[t].o].mutex = RLock(RUnlock(@, t), t)]
       ELSE manager' = [manager EXCEPT
               !.recorder[calls[t].o].mutex = RUnlock(@, t),
               !.mutex = RUnlock(@, t),
               !.calls[t] = NoCall]
    /\ RecorderFrame

\* listenForEvents of recorder o, a turn of the select: it returns when
\* r.ctx is done or r.isRecording is false; else the page is asked for its
\* events and, when it has some, the goroutine goes to r.mutex.Lock().
listenForEvents_Tick(o) ==
    /\ o \in 1..nobjects
    /\ recorder[o].lpc = "tick"
    /\ IF recorder[o].cancelled \/ ~recorder[o].isRecording
       THEN manager' = [manager EXCEPT !.recorder[o].lpc = "exit"]
       ELSE manager' = [manager EXCEPT
               !.recorder[o].lpc = "r.Lock",
               !.recorder[o].mutex = Lock(@, Poll(o))]
    /\ RecorderFrame

\* listenForEvents: r.mutex.Lock() has returned;
\* r.steps = append(r.steps, events...); r.mutex.Unlock().
listenForEvents_Append(o) ==
    /\ o \in 1..nobjects
    /\ recorder[o].lpc = "r.Lock"
    /\ Locked(recorder[o].mutex, Poll(o))
    /\ manager' = [manager EXCEPT
          !.recorder[o].lpc = "send",
          !.recorder[o].mutex = Unlock(@)]
    /\ RecorderFrame

\* listenForEvents: if r.wsConn != nil, the events are written to it; then
\* the next turn.
listenForEvents_Send(o) ==
    /\ o \in 1..nobjects
    /\ recorder[o].lpc = "send"
    /\ manager' = [manager EXCEPT !.recorder[o].lpc = "tick"]
    /\ RecorderFrame

\* The manager with no session, no call under way.
LockInit ==
    /\ InitExecutor
    /\ maxWorkers = 1
    /\ NoReplay
    /\ NoHandlers
    /\ manager = [recorders |-> [s \in {} |-> 0], recorder |-> <<>>,
                  nobjects |-> 0, mutex |-> Unlocked,
                  calls |-> [t \in Callers |-> NoCall]]

\* The goroutines that can wait for a recorder's mutex.
Lockers == Callers \cup {Poll(o) : o \in LockObjects}

LockNext ==
    \/ \E t \in Callers : Enter(t)
    \/ \E t \in Callers : rm_TakeOver(t)
    \/ \E g \in Lockers, o \in LockObjects : r_TakeOver(g, o)
    \/ \E t \in Callers : rm_Lock(t)
    \/ \E t \in Callers : StartRecording_Run(t)
    \/ \E t \in Callers : StartRecording_Return(t)
    \/ \E t \in Callers : r_Lock(t)
    \/ \E t \in Callers : rm_RLock(t)
    \/ \E t \in Callers : r_RLock(t)
    \/ \E o \in LockObjects : listenForEvents_Tick(o)
    \/ \E o \in LockObjects : listenForEvents_Append(o)
    \/ \E o \in LockObjects : listenForEvents_Send(o)

\* Every goroutine that can go on does; a Lock() that waits behind a writer
\* goes on when the mutex is unlocked again and again.
LockFairness ==
    /\ \A t \in Callers :
          /\ SF_vars(rm_TakeOver(t))
          /\ WF_vars(rm_Lock(t))
          /\ WF_vars(StartRecording_Run(t))
          /\ WF_vars(StartRecording_Return(t))
          /\ WF_vars(r_Lock(t))
          /\ WF_vars(rm_RLock(t))
          /\ WF_vars(r_RLock(t))
    /\ \A g \in Lockers, o \in LockObjects : SF_vars(r_TakeOver(g, o))
    /\ \A o \in LockObjects : WF_vars(listenForEvents_Append(o))

LockSpec == LockInit /\ [][LockNext]_vars /\ LockFairness

\* One recording session, from the return of the StartRecording that made it:
\* its poll loop, its subscriber connections and its stop.
SubscriberInit ==
    /\ InitExecutor
    /\ maxWorkers = 1
    /\ NoReplay
    /\ NoHandlers
    /\ manager = [recorders |-> Put([s \in {} |-> 0], 1, 1),
                  recorder |-> <<Started(1)>>,
                  nobjects |-> 1, nevents |-> 0, nconns |-> 0,
                  rret |-> Returns("StartRecording", "nil", TRUE)]

SubscriberNext ==
    \/ \E sessionID \in SessionIds : StopRecording(sessionID)
    \/ \E o \in Objects : SetWebSocketConnection(o)
    \/ \E o \in Objects : addEvent(o)
    \/ \E o \in Objects : listenForEvents(o)
    \/ \E o \in Objects : appendEvents(o)
    \/ \E o \in Objects : WriteMessage(o)

SubscriberSpec == SubscriberInit /\ [][SubscriberNext]_vars

(***************************************************************************)
(* The claims about the recording sessions, checked under RecorderSpec.    *)
(***************************************************************************)
\* C20: RecorderManager.StartRecording with a sessionId that is in the
\* registry returns an error and makes no browser context, and the registry
\* and every recorder are as before the call: the same recorder object under
\* the id, with the same isRecording and the same steps, be it recording or
\* stopped.  And only such a call returns that error.
C20_DuplicateStartRejected ==
    [][/\ \A sessionID \in SessionIds :
             (Registered(sessionID) /\ StartRecording(sessionID)) =>
                 /\ rret'.op = "StartRecording"
                 /\ rret'.err = "already exists"
                 /\ ~rret'.context
                 /\ recorders' = recorders
                 /\ recorder' = recorder
                 /\ nobjects' = nobjects
       /\ (rret'.op = "StartRecording" /\ rret'.err = "already exists") =>
             /\ \E sessionID \in SessionIds : Registered(sessionID)
             /\ recorders' = recorders
             /\ recorder' = recorder]_vars

\* StartRecording has just been refused for the one session of the registry,
\* which was stopped after it had captured a step.
C20_Witness ==
    /\ rret.op = "StartRecording"
    /\ rret.err = "already exists"
    /\ Registered(1)
    /\ ~Registered(2)
    /\ ~recorder[recorders[1]].isRecording
    /\ recorder[recorders[1]].steps # <<>>

\* Recorder o was stopped: a call of its StopRecording has returned nil.
Stopped(o) == recorder[o].cancelled

\* C21: once RecorderManager.StopRecording(sessionId) has returned nil, and
\* for as long as the registry holds that session, GetRecordingStatus returns
\* isRecording = false and the same steps at every later moment: no step of
\* the poll loop changes what it returns.
C21_StatusFrozenAfterStop ==
    [][\A sessionID \in SessionIds :
          (/\ Registered(sessionID)
           /\ Stopped(recorders[sessionID])
           /\ GetRecorder(sessionID)' = GetRecorder(sessionID))
          => /\ ~GetRecordingStatus(sessionID).isRecording
             /\ GetRecordingStatus(sessionID)' =
                    GetRecordingStatus(sessionID)]_vars

\* C22: CleanupRecording(sessionId) leaves the registry without the session;
\* and while the registry has no such session, GetRecordingStatus returns the
\* not-found error, GetRecorder reports that it does not exist, and
\* StopRecording returns the not-found error and stops no recorder.  The
\* session is in the registry again only when a StartRecording with that id
\* has returned nil, with a recorder made for that id.
C22_CleanedUpSessionIsAbsent ==
    [][\A sessionID \in SessionIds :
          /\ (rret'.op = "CleanupRecording" /\ CleanupRecording(sessionID))
                => ~Registered(sessionID)'
          /\ ~Registered(sessionID) =>
                /\ GetRecordingStatus(sessionID).err = "not found"
                /\ ~GetRecorder(sessionID).exists
                /\ (rret'.op = "StopRecording" /\ StopRecording(sessionID))
                      => /\ rret'.err = "not found"
                         /\ recorder' = recorder
          /\ (~Registered(sessionID) /\ Registered(sessionID)') =>
                /\ rret' = Returns("StartRecording", "nil", TRUE)
                /\ recorders'[sessionID] = nobjects + 1
                /\ recorder'[nobjects + 1] = Started(sessionID)]_vars

\* Session 1 was started, cleaned up, started again and cleaned up again, and
\* StopRecording(1) has just returned the not-found error.
C22_Witness ==
    /\ nobjects = 2
    /\ recorder[1].sessionID = 1
    /\ recorder[2].sessionID = 1
    /\ ~Registered(1)
    /\ rret.op = "StopRecording"
    /\ rret.err = "not found"

\* C23: a CleanupRecording of an id the registry does not hold (a second
\* cleanup, or an id never started) returns the not-found error and leaves
\* the registry and the recorders as they were.
C23_SecondCleanupIsNotFound ==
    [][\A sessionID \in SessionIds :
          (~Registered(sessionID) /\ CleanupRecording(sessionID)) =>
              /\ rret'.op = "CleanupRecording"
              /\ rret'.err = "not found"
              /\ recorders' = recorders
              /\ recorder' = recorder]_vars

(***************************************************************************)
(* The claims about the poll loop and the subscriber connection, checked   *)
(* under SubscriberSpec (C25 under SessionSpec).                           *)
(***************************************************************************)
\* The events of the messages recorder o has written, in the order written.
WireEvents(o) == [i \in 1..Len(recorder[o].wire) |-> recorder[o].wire[i].event]

\* No element occurs twice in the sequence.
NoDuplicate(seq) ==
    \A i \in 1..Len(seq) : \A j \in 1..Len(seq) : seq[i] = seq[j] => i = j

\* The last n elements of the sequence.
LastN(seq, n) == SubSeq(seq, Len(seq) - n + 1, Len(seq))

\* C24: the messages a recorder has written are, in order, a subsequence of
\* its captured steps and no event is written twice; the events still to be
\* written are the last steps captured.  An append made while a connection
\* is attached queues every event of the batch for writing, and each write
\* is one message with the first event not yet written.
C24_MessagesFollowTheSteps ==
    [][\A o \in 1..nobjects :
          /\ IsSubseq(WireEvents(o), recorder[o].steps)'
          /\ NoDuplicate(WireEvents(o))'
          /\ (recorder[o].lpc = "write")' =>
                /\ (recorder[o].batch # <<>>)'
                /\ (Len(recorder[o].batch) <= Len(recorder[o].steps))'
                /\ (LastN(recorder[o].steps, Len(recorder[o].batch))
                       = recorder[o].batch)'
          /\ (appendEvents(o) /\ recorder[o].wsConn # 0) =>
                /\ recorder'[o].lpc = "write"
                /\ recorder'[o].batch = recorder[o].batch
                /\ recorder'[o].wire = recorder[o].wire
          /\ recorder'[o].wire # recorder[o].wire =>
                /\ recorder[o].lpc = "write"
                /\ recorder'[o].wire = Append(recorder[o].wire,
                      [conn |-> recorder[o].wsConn,
                       event |-> Head(recorder[o].batch)])
                /\ recorder'[o].batch = Tail(recorder[o].batch)
                /\ recorder'[o].steps = recorder[o].steps]_vars

\* Two events were captured, and both were written, in the order captured.
C24_Witness ==
    /\ recorder[1].steps = <<1, 2>>
    /\ WireEvents(1) = <<1, 2>>
    /\ recorder[1].lpc = "tick"

\* C25: the set of session ids in the registry changes only by a
\* StartRecording that returns nil, which adds its id, and by a
\* CleanupRecording, which removes its id.  StopRecording, a step of the poll
\* loop, a captured event and SetWebSocketConnection leave the set as it is
\* (GetRecordingStatus and GetRecorder write nothing at all).
C25_OnlyStartAndCleanupChangeTheKeys ==
    [][/\ DOMAIN recorders' # DOMAIN recorders =>
             \E sessionID \in SessionIds :
                \/ /\ ~Registered(sessionID)
                   /\ StartRecording(sessionID)
                   /\ rret' = Returns("StartRecording", "nil", TRUE)
                   /\ DOMAIN recorders' = DOMAIN recorders \cup {sessionID}
                \/ /\ Registered(sessionID)
                   /\ CleanupRecording(sessionID)
                   /\ DOMAIN recorders' = DOMAIN recorders \ {sessionID}
       /\ \A sessionID \in SessionIds :
             StopRecording(sessionID) => recorders' = recorders
       /\ \A o \in Objects :
             (\/ SetWebSocketConnection(o)
              \/ addEvent(o)
              \/ listenForEvents(o)
              \/ appendEvents(o)
              \/ WriteMessage(o)) => recorders' = recorders]_vars

\* StopRecording(1) has just returned nil for a session that has a subscriber
\* connection and a captured step, and the session is still in the registry.
C25_Witness ==
    /\ rret = Returns("StopRecording", "nil", FALSE)
    /\ Registered(1)
    /\ Stopped(recorders[1])
    /\ recorder[recorders[1]].wsConn # 0
    /\ recorder[recorders[1]].steps # <<>>

\* The events the goroutine of recorder o holds between getEvents and the
\* append.
InHand(o) == IF recorder[o].lpc = "append" THEN recorder[o].batch ELSE <<>>

\* Events are numbered in the order of their capture.
InCaptureOrder(seq) ==
    \A i \in 1..Len(seq) : \A j \in 1..Len(seq) : i < j => seq[i] < seq[j]

IsPrefix(a, b) == Len(a) <= Len(b) /\ SubSeq(b, 1, Len(a)) = a

\* C26: the steps of a recorder, followed by the batch its goroutine holds
\* for the append, are at every moment the batches handed over by getEvents,
\* one after the other: every drained event once, in capture order.  A poll
\* takes the whole of the page's list and leaves it empty, an append adds
\* the whole batch at the end, and no step removes or changes a step that is
\* in the list.
C26_StepsAreTheDrainedBatches ==
    [][\A o \in 1..nobjects :
          /\ (recorder[o].steps \o InHand(o) = recorder[o].drained)'
          /\ InCaptureOrder(recorder[o].drained \o recorder[o].page)'
          /\ IsPrefix(recorder[o].steps, recorder'[o].steps)
          /\ recorder'[o].drained # recorder[o].drained =>
                /\ listenForEvents(o)
                /\ recorder[o].isRecording
                /\ recorder'[o].drained =
                      recorder[o].drained \o recorder[o].page
                /\ recorder'[o].page = <<>>
          /\ recorder'[o].steps # recorder[o].steps =>
                /\ appendEvents(o)
                /\ recorder'[o].steps =
                      recorder[o].steps \o recorder[o].batch]_vars

\* A first batch is in the steps and the goroutine holds a second one.
C26_Witness ==
    /\ recorder[1].steps = <<1>>
    /\ recorder[1].lpc = "append"
    /\ recorder[1].batch = <<2>>
    /\ recorder[1].isRecording

\* The connection that was attached when the event was drained.
AttachedAtDrain(o, event) ==
    recorder[o].attached[CHOOSE k \in 1..Len(recorder[o].drained) :
                            recorder[o].drained[k] = event]

NoMessageToAReplacedConnection(o) ==
    \A i \in 1..Len(recorder[o].wire) :
       recorder[o].wire[i].conn >=
           AttachedAtDrain(o, recorder[o].wire[i].event)

\* C27: SetWebSocketConnection changes r.wsConn and nothing else: not the
\* steps, not isRecording, not the events held or in the page, and it writes
\* no message, so no captured step is sent again.  Every message is written
\* to the connection attached at the moment of the write, hence never to a
\* connection that had been replaced when its event was drained (connections
\* are numbered in the order they are attached).
C27_OnlyTheConnectionChanges ==
    [][\A o \in 1..nobjects :
          /\ SetWebSocketConnection(o) =>
                /\ recorder'[o].wsConn = nconns + 1
                /\ recorder' = [recorder EXCEPT ![o].wsConn = nconns + 1]
                /\ recorders' = recorders
          /\ recorder'[o].wsConn # recorder[o].wsConn =>
                SetWebSocketConnection(o)
          /\ recorder'[o].wire # recorder[o].wire =>
                /\ Len(recorder'[o].wire) = Len(recorder[o].wire) + 1
                /\ recorder'[o].wire[Len(recorder'[o].wire)].conn =
                      recorder[o].wsConn
          /\ NoMessageToAReplacedConnection(o)']_vars

\* The first event was written to connection 1; then connection 2 replaced
\* it, and the second event, drained after that, was written to connection 2.
C27_Witness ==
    /\ recorder[1].steps = <<1, 2>>
    /\ recorder[1].attached = <<1, 2>>
    /\ recorder[1].wire = <<[conn |-> 1, event |-> 1],
                            [conn |-> 2, event |-> 2]>>

(***************************************************************************)
(* The claims about the conditions executeTestCase survives, checked under *)
(* ReplaySpec.                                                             *)
(***************************************************************************)
\* The log entries of level warn.
Warnings ==
    Cardinality({n \in 1..Len(result.Logs) : result.Logs[n].Level = "warn"})

\* The call except for its log.
Unlogged(call) == [call EXCEPT !.result.Logs = <<>>]

\* C28: whatever chromedp.Run returns for the viewport emulation, the call
\* goes on to the navigation, and whatever it returns for the readiness wait,
\* the call goes on to the initial screenshot; apart from the log the call is
\* in the same state as after a success, so what follows, and the Success it
\* ends with, does not depend on the outcome.  A failed job names another
\* cause.
C28_EmulationAndReadinessAreNotFatal ==
    [][/\ (rpc = "emulate" /\ rpc' # "emulate") =>
             Unlogged(replay') = Unlogged([replay EXCEPT !.rpc = "navigate"])
       /\ (rpc = "ready" /\ rpc' # "ready") =>
             Unlogged(replay') = Unlogged([replay EXCEPT !.rpc = "initial"])
       /\ (Returned /\ ~result.Success)' =>
             result'.ErrorMessage[1] \in
                {"Failed to parse test steps", "Chrome browser not found",
                 "Chrome executable not accessible",
                 "Failed to navigate to URL", "Step failed"}]_vars

\* A job succeeded with all its steps although the emulation failed (one
\* warning) and the page was not ready (two warnings).
C28_Witness ==
    /\ Returned
    /\ result.Success
    /\ Warnings = 3
    /\ Len(steps) = MaxSteps
    /\ AllStepsSucceeded

\* C29: a step of the call in which a non-fatal condition is met adds at
\* least one entry of level warn to result.Logs: a takeScreenshot that returns
\* "" and a collectPerformanceMetrics whose evaluation fails do, as the
\* failed viewport emulation and the readiness timeout do.
C29_NonFatalConditionsAreWarned ==
    [][/\ lost' > lost => Warnings' > Warnings
       /\ (sample.err = "no" /\ sample'.err \notin {"no", "ok"}) =>
             Warnings' > Warnings]_vars

\* The call except for its screenshots and the count of the failed captures.
Uncaptured(call) == [call EXCEPT !.result.Screenshots = <<>>, !.lost = 0]

\* Where the call is after the capture it makes at the given position.
AfterCapture(call) ==
    CASE call.rpc = "initial" -> [call EXCEPT !.rpc = "loop"]
      [] call.rpc = "step" ->
            [call EXCEPT !.rpc = "loop", !.stepi = call.stepi + 1]
      [] call.rpc = "error" -> [call EXCEPT !.rpc = "returned"]
      [] call.rpc = "loop" -> [call EXCEPT !.rpc = "metrics"]

\* C30: a takeScreenshot that returns "" leaves the result as it is: nothing
\* is appended to Screenshots, and Success and ErrorMessage are untouched; the
\* call goes on exactly as after a capture that was saved, so the later
\* captures are attempted whether or not an earlier one failed.  No entry of
\* Screenshots is empty, and a job that ran all its steps has attempted the
\* initial capture, the final one and one per key step.
C30_FailedCaptureIsOmitted ==
    [][/\ lost' > lost =>
             /\ result' = result
             /\ lost' = lost + 1
       /\ (lost' > lost \/ result'.Screenshots # result.Screenshots) =>
             Uncaptured(replay') = Uncaptured(AfterCapture(replay))
       /\ \A n \in 1..Len(result'.Screenshots) :
             result'.Screenshots[n].Tag \in
                {"initial", "step", "error", "final"}
       /\ (Returned /\ AllStepsSucceeded /\ navigated = "ok")' =>
             /\ result'.Success
             /\ result'.ErrorMessage = <<>>
             /\ Len(result'.Screenshots) + lost' = 2 + KeySteps']_vars

\* The initial capture failed; the job went on, saved a capture after a key
\* step and the final one, and succeeded.
C30_Witness ==
    /\ Returned
    /\ result.Success
    /\ result.ErrorMessage = <<>>
    /\ lost = 1
    /\ Len(result.Screenshots) = 2
    /\ result.Screenshots[1].Tag = "step"
    /\ result.Screenshots[2].Tag = "final"

(***************************************************************************)
(* The claims about the metrics and the touch steps, checked under         *)
(* ReplaySpec.                                                             *)
(***************************************************************************)
\* The field of the record that each key of the page's data goes to.
FieldOf ==
    [domContentLoaded |-> "DOMContentLoaded", memoryUsage |-> "MemoryUsage",
     networkRequests |-> "NetworkRequests"]

\* C31: a call whose navigation and steps all succeeded returns Success =
\* true and a Metrics record, whether the evaluation of the metrics failed
\* or not, and every metric that the page's data does not give above zero
\* is zero in the record (all of them when the evaluation failed); a result
\* with Success = false has a nil Metrics.
C31_MetricsAreBestEffort ==
    /\ (Returned /\ navigated = "ok" /\ AllStepsSucceeded) =>
          /\ result.Success
          /\ result.Metrics # <<>>
          /\ sample.err # "no"
          /\ \A key \in MetricKeys \ sample.positive :
                result.Metrics[1][FieldOf[key]] = 0
    /\ ~result.Success => result.Metrics = <<>>

\* A job of MaxSteps steps succeeded although the evaluation of the metrics
\* failed: its Metrics record has the three metrics at zero.
C31_Witness ==
    /\ Returned
    /\ result.Success
    /\ Len(steps) = MaxSteps
    /\ sample.err = "error"
    /\ result.Metrics # <<>>
    /\ \A key \in MetricKeys : result.Metrics[1][FieldOf[key]] = 0

\* C32: a step of type touchstart or touchend runs the browser tasks of a
\* click step (wait for the selector to be visible, then click it) and can
\* end in the errors a click step can end in, so that a click that fails
\* fails the job.
C32_TouchStepsClick ==
    (rpc = "loop" /\ stepi < Len(steps)
        /\ steps[stepi + 1] \in {"touchstart", "touchend"}) =>
            /\ executeTouch(steps[stepi + 1]) = executeClick
            /\ executeStep(steps[stepi + 1]) = executeStep("click")

(***************************************************************************)
(* The claims about the workers and their locks, checked under Spec.       *)
(***************************************************************************)
\* C34: a worker that is about to send a result finds room in the job's
\* result channel, whether or not anybody reads the channel: the channel
\* holds one result and the job gets one, so the send goes through at once
\* and the worker is back at the queue.  The workers that are at the queue,
\* in a replay or about to send are always maxWorkers.
C34_PublishNeverBlocks ==
    /\ \A w \in Workers :
          wpc[w] = "publish" =>
             /\ wjob[w] \in Jobs
             /\ Len(resultChan[wjob[w]]) < ResultChanCap
    /\ ~closed =>
          Cardinality({w \in Workers :
                          wpc[w] \in {"recv", "exec", "publish"}}) = maxWorkers

\* The only worker sent the result of the first job, which nobody has read,
\* and is in the replay of a later job.
C34_Witness ==
    /\ maxWorkers = 1
    /\ sent[1] = 1
    /\ spc[1] = "wait"
    /\ Len(resultChan[1]) = ResultChanCap
    /\ wpc[1] = "exec"
    /\ wjob[1] > 1

\* C33: under SuspendSpec, where one replay may be suspended for ever, the
\* mutex is free again after every Lock (so IsRunning, GetRunningCount,
\* CancelExecution and a submission get it and return), and with two workers
\* or more every submitted job is published, but for the job of the
\* suspended replay.
C33_SuspendedWorkerBlocksNobody ==
    /\ ~MutexFree ~> MutexFree
    /\ \A j \in 1..MaxSuspendJobs :
          (maxWorkers >= 2 /\ Submitted(j)) ~>
             \/ Published(j)
             \/ \E w \in Workers : wpc[w] = "suspended" /\ wjob[w] = j

\* A worker is suspended in the replay of the first job; the later jobs
\* were replayed and published by the other worker, and a CancelExecution
\* has just returned.
C33_Witness ==
    /\ wpc[1] = "suspended"
    /\ wjob[1] = 1
    /\ njobs = MaxSuspendJobs
    /\ \A j \in 2..njobs : Published(j)
    /\ ret.op = "CancelExecution"

(***************************************************************************)
(* The claims about the locks and the failures of the recording sessions.  *)
(***************************************************************************)
\* C40: a RecorderManager.StartRecording that returns an error of the start
\* (no Chrome, or the navigation or the script failed) leaves the map and
\* every recorder as they were: the id is not in the map and no object with
\* a listenForEvents goroutine was made.  A StartRecording for an id that is
\* not in the map is never refused as a duplicate, so the id can be started
\* again.  Checked under RecorderSpec.
C40_FailedStartLeavesNoTrace ==
    [][\A sessionID \in SessionIds :
          (rret'.op = "StartRecording" /\ ~Registered(sessionID)
              /\ StartRecording(sessionID)) =>
                 /\ rret'.err # "already exists"
                 /\ rret'.err # "nil" =>
                       /\ recorders' = recorders
                       /\ recorder' = recorder
                       /\ nobjects' = nobjects
                       /\ ~Registered(sessionID)'
                       /\ \A o \in 1..nobjects' :
                             recorder'[o].sessionID = sessionID =>
                                recorder'[o].lpc = recorder[o].lpc]_vars

\* The start of session 2 has just failed after its browser context was
\* made: session 1 is the only one in the map, with the only recorder.
C40_Witness ==
    /\ rret.op = "StartRecording"
    /\ rret.err = "failed to start recording"
    /\ rret.context
    /\ DOMAIN recorders = {1}
    /\ nobjects = 1
    /\ recorder[1].isRecording

\* Where listenForEvents of recorder o is ("none" before the recorder is
\* made).
lpcOf(o) == IF o \in 1..nobjects THEN recorder[o].lpc ELSE "none"

\* The mutexes goroutine g holds or waits for: 0 for rm.mutex, or the number
\* of the recorder.
Has(m, g) == m.w = g \/ g \in m.r
Awaits(m, g) == g \in m.pending \/ g \in m.rwait \/ (m.w = g /\ m.r # {})
HeldBy(g) ==
    (IF Has(manager.mutex, g) THEN {0} ELSE {})
    \cup {o \in 1..nobjects : Has(recorder[o].mutex, g)}
InCall(t) == calls[t].pc # "idle"

\* C39: every call of a RecorderManager method or of SetWebSocketConnection
\* returns, and a listenForEvents that has called r.mutex.Lock() gets to its
\* append and unlocks, whatever the other goroutines do; a goroutine takes
\* rm.mutex holding no other mutex, and listenForEvents takes none but its
\* recorder's.  Checked under LockSpec.
C39_NoDeadlock ==
    /\ \A t \in Callers : InCall(t) ~> ~InCall(t)
    /\ \A o \in LockObjects : (lpcOf(o) = "r.Lock") ~> (lpcOf(o) = "send")
    /\ [](\A t \in Callers :
             calls[t].pc \in {"rm.Lock", "rm.RLock"} => HeldBy(t) \subseteq {0})
    /\ [](\A o \in 1..nobjects : HeldBy(Poll(o)) \subseteq {o})

\* A StopRecording that holds rm.mutex waits for the r.mutex of the
\* recorder, which listenForEvents holds for its append, while the other
\* caller waits for rm.mutex.
C39_Witness ==
    /\ calls[1].op = "StopRecording"
    /\ calls[1].pc = "r.Lock"
    /\ Locked(manager.mutex, 1)
    /\ Locked(recorder[calls[1].o].mutex, Poll(calls[1].o))
    /\ Awaits(manager.mutex, 2)

\* The steps of listenForEvents of recorder o that read or write a shared
\* field: the turn that reads r.isRecording (its ctx not done), the append to
\* r.steps, and the read of r.wsConn before the events are written to it.
ReadsIsRecording(o) == listenForEvents_Tick(o) /\ ~recorder[o].cancelled
WritesSteps(o) == listenForEvents_Append(o)
ReadsWsConn(o) == listenForEvents_Send(o)

\* C38: listenForEvents reads r.isRecording, appends to r.steps and reads
\* r.wsConn only in a step it takes with its recorder's r.mutex locked.
\* Checked under LockSpec, where it fails: the read of r.isRecording at the
\* head of a turn and the read of r.wsConn after the append are made with
\* the mutex unlocked.
C38_SharedFieldsUnderMutex ==
    [][\A o \in LockObjects :
          (ReadsIsRecording(o) \/ WritesSteps(o) \/ ReadsWsConn(o)) =>
              Locked(recorder[o].mutex, Poll(o))]_vars

\* C35: the admission checks of ExecuteTestCase and ExecuteTestSuite keep
\* te.running at ten ids or fewer.  It fails under AdmissionSpec: the check
\* and the insertion into te.running are made by different goroutines, so
\* eleven requests can pass the check before any of them is counted.
C35_AtMostTenRunning == GetRunningCount <= MaxConcurrent

\* C36: a row that StopExecution has set to "cancelled" stays "cancelled".
\* It fails under HandlerSpec: the goroutine that receives the result saves
\* its own copy of the row, "passed" or "failed", over it.
C36_CancelledStays ==
    [][\A id \in 1..Len(database) :
          database[id] = "cancelled" => database'[id] = "cancelled"]_vars

\* The row of id exists; it has a terminal status.
Created(id) == id \in 1..Len(database)
Terminal(id) == Created(id) /\ database[id] \in {"passed", "failed", "cancelled"}

\* C37: every row that was created gets a terminal status in the end.  It
\* fails under HandlerSpec: when ExecuteTestSuite cannot create a later row
\* it returns without starting the goroutine, and the rows it had created
\* stay "pending".
C37_EveryExecutionEnds == \A id \in Executions : Created(id) ~> Terminal(id)
====
